---- MODULE Spec2Model ----
(***************************************************************************)
(* A model of the Phare Terraform provider: the HTTP API client            *)
(* (internal/client) and the resource handlers built on it                 *)
(* (internal/provider).                                                    *)
(*                                                                         *)
(* Representation                                                          *)
(*   - a Go pointer or optional value is a sequence of length <= 1:        *)
(*     <<>> is nil, <<v>> points at v; a Go slice is a sequence;           *)
(*   - a Go error is the sequence of the parts of its text, <<>> is nil;   *)
(*   - a decimal string (fmt %d, strconv.Atoi) is a sequence of            *)
(*     one-character strings;                                              *)
(*   - a JSON document is a record of its kind k and one field per kind;   *)
(*     a body that is not JSON at all has kind "invalid".                  *)
(***************************************************************************)
EXTENDS Integers, Sequences, FiniteSets, TLC

VARIABLES
    client,   \* the *Client the last successful NewClient returned (<<>> before)
    last,     \* the most recent call: its inputs, the requests it issued, its results
    tf        \* the declarative state the host holds for each resource

vars == <<client, last, tf>>

(***************************************************************************)
(* Bounds of the model.                                                    *)
(***************************************************************************)
\* the longest list of validation messages the server attaches to one field
MaxErrMsgs == 2
\* the longest list a list endpoint answers with
MaxListLen == 1

(***************************************************************************)
(* Program constants.                                                      *)
(***************************************************************************)
DefaultBaseURL == "https://api.phare.io"
\* 30 * time.Second, in seconds
DefaultTimeout == 30

(***************************************************************************)
(* Decimal strings: fmt.Sprintf("%d", n) and strconv.Atoi.                 *)
(***************************************************************************)
Digits == <<"0", "1", "2", "3", "4", "5", "6", "7", "8", "9">>

RECURSIVE ItoaNat(_)
ItoaNat(n) ==
    IF n < 10 THEN <<Digits[n + 1]>>
    ELSE ItoaNat(n \div 10) \o <<Digits[(n % 10) + 1]>>

\* fmt.Sprintf("%d", n)
Itoa(n) == IF n < 0 THEN <<"-">> \o ItoaNat(0 - n) ELSE ItoaNat(n)

DigitValue(ch) == (CHOOSE i \in 1..10 : Digits[i] = ch) - 1
IsDigit(ch) == \E i \in 1..10 : Digits[i] = ch

RECURSIVE AtoiNat(_, _)
AtoiNat(s, acc) ==
    IF s = <<>> THEN acc
    ELSE AtoiNat(Tail(s), acc * 10 + DigitValue(Head(s)))

\* strconv.Atoi(s): [ok, v]; an optional sign, then at least one digit, only digits
Atoi(s) ==
    LET signed == s # <<>> /\ Head(s) \in {"-", "+"}
        ds     == IF signed THEN Tail(s) ELSE s
    IN  IF ds = <<>> \/ \E i \in 1..Len(ds) : ~IsDigit(ds[i])
        THEN [ok |-> FALSE, v |-> 0]
        ELSE [ok |-> TRUE,
              v  |-> IF signed /\ Head(s) = "-" THEN 0 - AtoiNat(ds, 0)
                     ELSE AtoiNat(ds, 0)]

(***************************************************************************)
(* JSON documents.                                                         *)
(***************************************************************************)
\* one document: its kind k and, by kind, the number n, the string s (the text of
\* bytes that are not JSON, too), the boolean b, the array a or the object o
JSON(k, n, s, b, a, o) == [k |-> k, n |-> n, s |-> s, b |-> b, a |-> a, o |-> o]
JInvalid(text) == JSON("invalid", 0, text, FALSE, <<>>, <<>>)   \* bytes that are not JSON
JNull    == JSON("null", 0, "", FALSE, <<>>, <<>>)
JNum(n)  == JSON("num", n, "", FALSE, <<>>, <<>>)
JStr(s)  == JSON("str", 0, s, FALSE, <<>>, <<>>)
JBool(b) == JSON("bool", 0, "", b, <<>>, <<>>)
JArr(xs) == JSON("arr", 0, "", FALSE, xs, <<>>)
JObj(f)  == JSON("obj", 0, "", FALSE, <<>>, f)
NoFields == <<>>                                  \* the object {}
\* the request carries no body (body == nil in doRequest)
NoBody   == JSON("none", 0, "", FALSE, <<>>, <<>>)

HasKey(o, key) == key \in DOMAIN o
\* a member that is absent or null leaves the Go field at its zero value
Skipped(o, key) == ~HasKey(o, key) \/ o[key].k = "null"

\* the decoders of one struct field: [ok, v]
DecInt(o, key) ==
    IF Skipped(o, key) THEN [ok |-> TRUE, v |-> 0]
    ELSE IF o[key].k = "num" THEN [ok |-> TRUE, v |-> o[key].n]
    ELSE [ok |-> FALSE, v |-> 0]

DecString(o, key) ==
    IF Skipped(o, key) THEN [ok |-> TRUE, v |-> ""]
    ELSE IF o[key].k = "str" THEN [ok |-> TRUE, v |-> o[key].s]
    ELSE [ok |-> FALSE, v |-> ""]

DecBool(o, key) ==
    IF Skipped(o, key) THEN [ok |-> TRUE, v |-> FALSE]
    ELSE IF o[key].k = "bool" THEN [ok |-> TRUE, v |-> o[key].b]
    ELSE [ok |-> FALSE, v |-> FALSE]

\* the pointer fields *int, *string, *bool
DecIntPtr(o, key) ==
    IF Skipped(o, key) THEN [ok |-> TRUE, v |-> <<>>]
    ELSE IF o[key].k = "num" THEN [ok |-> TRUE, v |-> <<o[key].n>>]
    ELSE [ok |-> FALSE, v |-> <<>>]

DecStringPtr(o, key) ==
    IF Skipped(o, key) THEN [ok |-> TRUE, v |-> <<>>]
    ELSE IF o[key].k = "str" THEN [ok |-> TRUE, v |-> <<o[key].s>>]
    ELSE [ok |-> FALSE, v |-> <<>>]

DecBoolPtr(o, key) ==
    IF Skipped(o, key) THEN [ok |-> TRUE, v |-> <<>>]
    ELSE IF o[key].k = "bool" THEN [ok |-> TRUE, v |-> <<o[key].b>>]
    ELSE [ok |-> FALSE, v |-> <<>>]

\* []string
DecStrings(o, key) ==
    IF Skipped(o, key) THEN [ok |-> TRUE, v |-> <<>>]
    ELSE IF o[key].k # "arr" THEN [ok |-> FALSE, v |-> <<>>]
    ELSE LET xs == o[key].a
         IN  [ok |-> \A i \in 1..Len(xs) : xs[i].k \in {"str", "null"},
              v  |-> [i \in 1..Len(xs) |->
                        IF xs[i].k = "str" THEN xs[i].s ELSE ""]]

\* the members of a JSON object as a struct sees them; a document that is
\* null decodes as a struct with every field skipped
Members(j) == IF j.k = "obj" THEN j.o ELSE NoFields

\* json.Unmarshal's verdict on the document itself when the target is a struct
StructDocOK(j) == j.k \in {"obj", "null"}

\* a conditional member of a marshalled object (omitempty on a nil pointer)
OmitEmpty(key, ptr, J(_)) == IF ptr = <<>> THEN NoFields ELSE key :> J(ptr[1])

(***************************************************************************)
(* Errors: the parts of the text fmt.Errorf builds.                        *)
(***************************************************************************)
\* one part: its kind t and, by kind, the string s, the decimal digits d, the
\* printed map m or the raw body b
Part(t, s0, d, m, b) == [t |-> t, s |-> s0, d |-> d, m |-> m, b |-> b]
PLit(s)   == Part("lit", s, <<>>, <<>>, JNull)        \* text of the format string
PInt(n)   == Part("int", "", Itoa(n), <<>>, JNull)    \* %d
PStr(s)   == Part("str", s, <<>>, <<>>, JNull)        \* %s of a string
PRaw(b)   == Part("raw", "", <<>>, <<>>, b)           \* %s of string(respBody)
PMap(m)   == Part("map", "", <<>>, m, JNull)          \* %+v of map[string][]string
PCause(s) == Part("cause", s, <<>>, <<>>, JNull)      \* %w of an error of a library

NoErr == <<>>
\* fmt.Errorf(prefix + ": %w", err)
Wrap(prefix, err) == <<PLit(prefix)>> \o err

\* the text contains the string s (as the text of one of its parts, or as a key or
\* a message of a printed map)
ContainsStr(err, s) ==
    \E i \in 1..Len(err) :
        \/ err[i].t \in {"lit", "str", "cause"} /\ err[i].s = s
        \/ err[i].t = "map" /\
              \E f \in DOMAIN err[i].m :
                  f = s \/ \E n \in 1..Len(err[i].m[f]) : err[i].m[f][n] = s
\* the text contains the decimal rendering of n
ContainsInt(err, n) == \E i \in 1..Len(err) : err[i].t = "int" /\ err[i].d = Itoa(n)
\* the text contains the raw body b
ContainsBody(err, b) == \E i \in 1..Len(err) : err[i].t = "raw" /\ err[i].b = b

(***************************************************************************)
(* client.go: the client and its request primitive.                        *)
(***************************************************************************)
\* NewClient(apiToken, baseURL): [client, err]
NewClient_alwaysDefault(apiToken, baseURL) ==
    IF apiToken = ""
    THEN [client |-> <<>>, err |-> <<PLit("api_token is required")>>]
    ELSE [client |-> <<[baseURL  |-> DefaultBaseURL,
                        apiToken |-> apiToken,
                        timeout  |-> DefaultTimeout]>>,
          err    |-> NoErr]
NewClient(apiToken, baseURL) ==
    IF apiToken = ""
    THEN [client |-> <<>>, err |-> <<PLit("api_token is required")>>]
    ELSE [client |-> <<[baseURL  |-> IF baseURL = "" THEN DefaultBaseURL ELSE baseURL,
                        apiToken |-> apiToken,
                        timeout  |-> DefaultTimeout]>>,
          err    |-> NoErr]

\* ErrorResponse and json.Unmarshal(respBody, &errResp): [ok, v]
DecErrors(o, key) ==
    IF Skipped(o, key) THEN [ok |-> TRUE, v |-> <<>>]
    ELSE IF o[key].k # "obj" THEN [ok |-> FALSE, v |-> <<>>]
    ELSE LET m == o[key].o
             ListOK(j) == \/ j.k = "null"
                          \/ j.k = "arr" /\ \A i \in 1..Len(j.a) : j.a[i].k \in {"str", "null"}
         IN  [ok |-> \A f \in DOMAIN m : ListOK(m[f]),
              v  |-> [f \in DOMAIN m |->
                        IF m[f].k # "arr" THEN <<>>
                        ELSE [i \in 1..Len(m[f].a) |->
                                IF m[f].a[i].k = "str" THEN m[f].a[i].s ELSE ""]]]

UnmarshalErrorResponse(j) ==
    LET o    == Members(j)
        msg  == DecString(o, "message")
        errs == DecErrors(o, "errors")
    IN  [ok |-> StructDocOK(j) /\ msg.ok /\ errs.ok,
         v  |-> [Message |-> msg.v, Errors |-> errs.v]]

\* a request path: fmt.Sprintf(prefix + "/%d" + suffix, id), or the bare collection
\* path when id is <<>>
Path(prefix, id, suffix) ==
    [prefix |-> prefix,
     id     |-> IF id = <<>> THEN <<>> ELSE Itoa(id[1]),
     suffix |-> suffix]

\* url.Parse inside http.NewRequestWithContext: the base URLs it rejects
MalformedBaseURL == "http://bad host"
ParsesAsURL(u) == u # MalformedBaseURL

\* the request doRequest builds: url, method, body and the three headers
BuildRequest_bodyOnly(c, method, path, body) ==
    [method |-> method,
     url    |-> [base |-> c.baseURL, path |-> path],
     body   |-> body,
     header |-> [Authorization |-> <<"Bearer ", c.apiToken>>,
                 ContentType   |-> IF body = NoBody THEN "" ELSE "application/json",
                 Accept        |-> "application/json"]]
BuildRequest(c, method, path, body) ==
    [method |-> method,
     url    |-> [base |-> c.baseURL, path |-> path],
     body   |-> body,
     header |-> [Authorization |-> <<"Bearer ", c.apiToken>>,
                 ContentType   |-> "application/json",
                 Accept        |-> "application/json"]]

\* resp.StatusCode >= 400
IsErrorStatus_gt(status) == status > 400
IsErrorStatus(status) == status >= 400

\* the error of an error response
APIError_noValidation(status, respBody) ==
    LET d == UnmarshalErrorResponse(respBody)
    IN  IF ~d.ok
        THEN <<PLit("API error (status "), PInt(status), PLit("): "), PRaw(respBody)>>
        ELSE <<PLit("API error (status "), PInt(status), PLit("): "), PStr(d.v.Message)>>
APIError_noRaw(status, respBody) ==
    LET d == UnmarshalErrorResponse(respBody)
    IN  IF ~d.ok
        THEN <<PLit("API error (status "), PInt(status), PLit(")")>>
        ELSE IF DOMAIN d.v.Errors # {}
        THEN <<PLit("API error (status "), PInt(status), PLit("): "), PStr(d.v.Message),
               PLit(" - validation errors: "), PMap(d.v.Errors)>>
        ELSE <<PLit("API error (status "), PInt(status), PLit("): "), PStr(d.v.Message)>>
APIError(status, respBody) ==
    LET d == UnmarshalErrorResponse(respBody)
    IN  IF ~d.ok
        THEN <<PLit("API error (status "), PInt(status), PLit("): "), PRaw(respBody)>>
        ELSE IF DOMAIN d.v.Errors # {}
        THEN <<PLit("API error (status "), PInt(status), PLit("): "), PStr(d.v.Message),
               PLit(" - validation errors: "), PMap(d.v.Errors)>>
        ELSE <<PLit("API error (status "), PInt(status), PLit("): "), PStr(d.v.Message)>>

\* what doRequest returns for a response that is no error: the bytes it read
SuccessBody(respBody) == <<respBody>>

\* c.httpClient.Do(req): the requests one call hands to the transport
Sent_again(req) == <<req, req>>
Sent(req) == <<req>>

\* doRequest(ctx, method, path, body) under the outcome net of the exchange:
\* [sent, body, err], sent being the requests handed to the transport.
\* (json.Marshal cannot fail on the structs the client sends.)
doRequest_swallowTransport(c, method, path, body, net) ==
    LET req == BuildRequest(c, method, path, body)
    IN  IF ~ParsesAsURL(c.baseURL)
        THEN [sent |-> <<>>, body |-> <<>>,
              err  |-> <<PLit("failed to create request: "), PCause("parse url")>>]
        ELSE IF net.fail = "read"
        THEN [sent |-> Sent(req), body |-> <<>>,
              err  |-> <<PLit("failed to read response body: "), PCause(net.cause)>>]
        ELSE IF IsErrorStatus(net.status)
        THEN [sent |-> Sent(req), body |-> <<>>, err |-> APIError(net.status, net.body)]
        ELSE [sent |-> Sent(req), body |-> SuccessBody(net.body), err |-> NoErr]
doRequest(c, method, path, body, net) ==
    LET req == BuildRequest(c, method, path, body)
    IN  IF ~ParsesAsURL(c.baseURL)
        THEN [sent |-> <<>>, body |-> <<>>,
              err  |-> <<PLit("failed to create request: "), PCause("parse url")>>]
        ELSE IF net.fail = "do"
        THEN [sent |-> Sent(req), body |-> <<>>,
              err  |-> <<PLit("failed to execute request: "), PCause(net.cause)>>]
        ELSE IF net.fail = "read"
        THEN [sent |-> Sent(req), body |-> <<>>,
              err  |-> <<PLit("failed to read response body: "), PCause(net.cause)>>]
        ELSE IF IsErrorStatus(net.status)
        THEN [sent |-> Sent(req), body |-> <<>>, err |-> APIError(net.status, net.body)]
        ELSE [sent |-> Sent(req), body |-> SuccessBody(net.body), err |-> NoErr]

\* the tail every decoding operation shares: wrap doRequest's error, or decode the
\* body with json.Unmarshal and wrap its error: [sent, out, err]
\* json.Unmarshal's error
JSONError == <<PCause("json")>>
Decoded_unchecked(r, failed, d) ==
    IF r.err # NoErr
    THEN [sent |-> r.sent, out |-> <<>>, err |-> Wrap(failed, r.err)]
    ELSE [sent |-> r.sent, out |-> <<d.v>>, err |-> NoErr]
Decoded(r, failed, d) ==
    IF r.err # NoErr
    THEN [sent |-> r.sent, out |-> <<>>, err |-> Wrap(failed, r.err)]
    ELSE IF ~d.ok
    THEN [sent |-> r.sent, out |-> <<>>,
          err  |-> Wrap("failed to unmarshal response: ", JSONError)]
    ELSE [sent |-> r.sent, out |-> <<d.v>>, err |-> NoErr]
\* the tail of the operations that decode nothing (delete, pause, resume)
Undecoded(r, failed) ==
    IF r.err # NoErr
    THEN [sent |-> r.sent, out |-> <<>>, err |-> Wrap(failed, r.err)]
    ELSE [sent |-> r.sent, out |-> <<>>, err |-> NoErr]
\* the bytes handed to json.Unmarshal (read only when doRequest returned no error)
BodyOf(r) == IF r.body = <<>> THEN JNull ELSE r.body[1]

\* json.Unmarshal into a response whose Data is a slice of structs: [ok, v]
DecList(j, Elem(_)) ==
    LET o == Members(j)
    IN  IF ~StructDocOK(j) THEN [ok |-> FALSE, v |-> <<>>]
        ELSE IF Skipped(o, "data") THEN [ok |-> TRUE, v |-> <<>>]
        ELSE IF o["data"].k # "arr" THEN [ok |-> FALSE, v |-> <<>>]
        ELSE LET xs == o["data"].a
             IN  [ok |-> \A i \in 1..Len(xs) : Elem(xs[i]).ok,
                  v  |-> [i \in 1..Len(xs) |-> Elem(xs[i]).v]]

(***************************************************************************)
(* Alert rules (AlertRule and the client operations on it).                *)
(***************************************************************************)
MarshalAlertRule(rule) ==
    JObj(OmitEmpty("id", rule.ID, JNum)
         @@ ("event" :> JStr(rule.Event))
         @@ ("integration_id" :> JNum(rule.IntegrationID))
         @@ ("rate_limit" :> JNum(rule.RateLimit))
         @@ ("event_settings" :> JObj("type" :> JStr(rule.EventSettings.Type)))
         @@ OmitEmpty("project_id", rule.ProjectID, JNum)
         @@ OmitEmpty("created_at", rule.CreatedAt, JStr)
         @@ OmitEmpty("updated_at", rule.UpdatedAt, JStr))

\* json.Unmarshal(respBody, &AlertEventSettings{})
UnmarshalAlertEventSettings(o, key) ==
    IF Skipped(o, key) THEN [ok |-> TRUE, v |-> [Type |-> ""]]
    ELSE IF o[key].k # "obj" THEN [ok |-> FALSE, v |-> [Type |-> ""]]
    ELSE LET t == DecString(o[key].o, "type")
         IN  [ok |-> t.ok, v |-> [Type |-> t.v]]

\* json.Unmarshal(respBody, &AlertRule{})
UnmarshalAlertRule(j) ==
    LET o   == Members(j)
        id  == DecIntPtr(o, "id")
        ev  == DecString(o, "event")
        ii  == DecInt(o, "integration_id")
        rl  == DecInt(o, "rate_limit")
        es  == UnmarshalAlertEventSettings(o, "event_settings")
        pid == DecIntPtr(o, "project_id")
        ca  == DecStringPtr(o, "created_at")
        ua  == DecStringPtr(o, "updated_at")
    IN  [ok |-> StructDocOK(j) /\ id.ok /\ ev.ok /\ ii.ok /\ rl.ok /\ es.ok
                /\ pid.ok /\ ca.ok /\ ua.ok,
         v  |-> [ID |-> id.v, Event |-> ev.v, IntegrationID |-> ii.v,
                 RateLimit |-> rl.v, EventSettings |-> es.v, ProjectID |-> pid.v,
                 CreatedAt |-> ca.v, UpdatedAt |-> ua.v]]

CreateAlertRule(c, rule, net) ==
    LET r == doRequest(c, "POST", Path("/alert-rules", <<>>, ""), MarshalAlertRule(rule), net)
    IN  Decoded(r, "failed to create alert rule: ", UnmarshalAlertRule(BodyOf(r)))

GetAlertRule(c, id, net) ==
    LET r == doRequest(c, "GET", Path("/alert-rules", <<id>>, ""), NoBody, net)
    IN  Decoded(r, "failed to get alert rule: ", UnmarshalAlertRule(BodyOf(r)))

UpdateAlertRule(c, id, rule, net) ==
    LET r == doRequest(c, "POST", Path("/alert-rules", <<id>>, ""), MarshalAlertRule(rule), net)
    IN  Decoded(r, "failed to update alert rule: ", UnmarshalAlertRule(BodyOf(r)))

DeleteAlertRule(c, id, net) ==
    LET r == doRequest(c, "DELETE", Path("/alert-rules", <<id>>, ""), NoBody, net)
    IN  Undecoded(r, "failed to delete alert rule: ")

ListAlertRules(c, net) ==
    LET r == doRequest(c, "GET", Path("/alert-rules", <<>>, ""), NoBody, net)
    IN  Decoded(r, "failed to list alert rules: ", DecList(BodyOf(r), UnmarshalAlertRule))

(***************************************************************************)
(* Monitors (Monitor, MonitorRequest, RequestHeader, SuccessAssertion and  *)
(* the client operations on them).                                         *)
(***************************************************************************)
\* a struct field that is a slice of structs: [ok, v]
DecStructs(o, key, Elem(_)) ==
    IF Skipped(o, key) THEN [ok |-> TRUE, v |-> <<>>]
    ELSE IF o[key].k # "arr" THEN [ok |-> FALSE, v |-> <<>>]
    ELSE LET xs == o[key].a
         IN  [ok |-> \A i \in 1..Len(xs) : Elem(xs[i]).ok,
              v  |-> [i \in 1..Len(xs) |-> Elem(xs[i]).v]]

\* a member of a marshalled object that is a slice with omitempty
OmitEmptyList(key, xs, J(_)) ==
    IF xs = <<>> THEN NoFields ELSE key :> JArr([i \in 1..Len(xs) |-> J(xs[i])])

MarshalRequestHeader(h) == JObj(("name" :> JStr(h.Name)) @@ ("value" :> JStr(h.Value)))

UnmarshalRequestHeader(j) ==
    LET o == Members(j)
        n == DecString(o, "name")
        v == DecString(o, "value")
    IN  [ok |-> StructDocOK(j) /\ n.ok /\ v.ok, v |-> [Name |-> n.v, Value |-> v.v]]

MarshalSuccessAssertion(a) ==
    JObj(("type" :> JStr(a.Type))
         @@ OmitEmpty("operator", a.Operator, JStr)
         @@ OmitEmpty("value", a.Value, JStr)
         @@ OmitEmpty("property", a.Property, JStr))

UnmarshalSuccessAssertion(j) ==
    LET o  == Members(j)
        t  == DecString(o, "type")
        op == DecStringPtr(o, "operator")
        v  == DecStringPtr(o, "value")
        p  == DecStringPtr(o, "property")
    IN  [ok |-> StructDocOK(j) /\ t.ok /\ op.ok /\ v.ok /\ p.ok,
         v  |-> [Type |-> t.v, Operator |-> op.v, Value |-> v.v, Property |-> p.v]]

MarshalMonitorRequest(q) ==
    JObj(OmitEmpty("method", q.Method, JStr)
         @@ OmitEmpty("url", q.URL, JStr)
         @@ OmitEmpty("tls_skip_verify", q.TLSSkipVerify, JBool)
         @@ OmitEmpty("body", q.Body, JStr)
         @@ OmitEmpty("follow_redirects", q.FollowRedirects, JBool)
         @@ OmitEmpty("user_agent_secret", q.UserAgentSecret, JStr)
         @@ OmitEmptyList("headers", q.Headers, MarshalRequestHeader)
         @@ OmitEmpty("host", q.Host, JStr)
         @@ OmitEmpty("port", q.Port, JStr)
         @@ OmitEmpty("connection", q.Connection, JStr))

\* json.Unmarshal into a MonitorRequest
UnmarshalMonitorRequest(j) ==
    LET o  == Members(j)
        m  == DecStringPtr(o, "method")
        u  == DecStringPtr(o, "url")
        t  == DecBoolPtr(o, "tls_skip_verify")
        b  == DecStringPtr(o, "body")
        f  == DecBoolPtr(o, "follow_redirects")
        s  == DecStringPtr(o, "user_agent_secret")
        hs == DecStructs(o, "headers", UnmarshalRequestHeader)
        h  == DecStringPtr(o, "host")
        p  == DecStringPtr(o, "port")
        c  == DecStringPtr(o, "connection")
    IN  [ok |-> StructDocOK(j) /\ m.ok /\ u.ok /\ t.ok /\ b.ok /\ f.ok /\ s.ok
                /\ hs.ok /\ h.ok /\ p.ok /\ c.ok,
         v  |-> [Method |-> m.v, URL |-> u.v, TLSSkipVerify |-> t.v, Body |-> b.v,
                 FollowRedirects |-> f.v, UserAgentSecret |-> s.v, Headers |-> hs.v,
                 Host |-> h.v, Port |-> p.v, Connection |-> c.v]]

\* a struct field that is itself a struct: an absent or null member leaves it zero
DecStruct(o, key, Elem(_)) ==
    IF Skipped(o, key) THEN [ok |-> TRUE, v |-> Elem(JNull).v] ELSE Elem(o[key])

MarshalMonitor(m) ==
    JObj(OmitEmpty("id", m.ID, JNum)
         @@ ("name" :> JStr(m.Name))
         @@ ("protocol" :> JStr(m.Protocol))
         @@ ("request" :> MarshalMonitorRequest(m.Request))
         @@ ("interval" :> JNum(m.Interval))
         @@ ("timeout" :> JNum(m.Timeout))
         @@ ("incident_confirmations" :> JNum(m.IncidentConfirmations))
         @@ ("recovery_confirmations" :> JNum(m.RecoveryConfirmations))
         @@ ("regions" :> JArr([i \in 1..Len(m.Regions) |-> JStr(m.Regions[i])]))
         @@ OmitEmptyList("success_assertions", m.SuccessAssertions, MarshalSuccessAssertion)
         @@ OmitEmpty("paused", m.Paused, JBool)
         @@ OmitEmpty("created_at", m.CreatedAt, JStr)
         @@ OmitEmpty("updated_at", m.UpdatedAt, JStr))

\* json.Unmarshal(respBody, &Monitor{})
UnmarshalMonitor(j) ==
    LET o  == Members(j)
        id == DecIntPtr(o, "id")
        n  == DecString(o, "name")
        pr == DecString(o, "protocol")
        rq == DecStruct(o, "request", UnmarshalMonitorRequest)
        iv == DecInt(o, "interval")
        to == DecInt(o, "timeout")
        ic == DecInt(o, "incident_confirmations")
        rc == DecInt(o, "recovery_confirmations")
        rg == DecStrings(o, "regions")
        sa == DecStructs(o, "success_assertions", UnmarshalSuccessAssertion)
        pa == DecBoolPtr(o, "paused")
        ca == DecStringPtr(o, "created_at")
        ua == DecStringPtr(o, "updated_at")
    IN  [ok |-> StructDocOK(j) /\ id.ok /\ n.ok /\ pr.ok /\ rq.ok /\ iv.ok /\ to.ok
                /\ ic.ok /\ rc.ok /\ rg.ok /\ sa.ok /\ pa.ok /\ ca.ok /\ ua.ok,
         v  |-> [ID |-> id.v, Name |-> n.v, Protocol |-> pr.v, Request |-> rq.v,
                 Interval |-> iv.v, Timeout |-> to.v, IncidentConfirmations |-> ic.v,
                 RecoveryConfirmations |-> rc.v, Regions |-> rg.v,
                 SuccessAssertions |-> sa.v, Paused |-> pa.v,
                 CreatedAt |-> ca.v, UpdatedAt |-> ua.v]]

CreateMonitor(c, monitor, net) ==
    LET r == doRequest(c, "POST", Path("/uptime/monitors", <<>>, ""), MarshalMonitor(monitor), net)
    IN  Decoded(r, "failed to create monitor: ", UnmarshalMonitor(BodyOf(r)))

GetMonitor(c, id, net) ==
    LET r == doRequest(c, "GET", Path("/uptime/monitors", <<id>>, ""), NoBody, net)
    IN  Decoded(r, "failed to get monitor: ", UnmarshalMonitor(BodyOf(r)))

UpdateMonitor(c, id, monitor, net) ==
    LET r == doRequest(c, "POST", Path("/uptime/monitors", <<id>>, ""), MarshalMonitor(monitor), net)
    IN  Decoded(r, "failed to update monitor: ", UnmarshalMonitor(BodyOf(r)))

DeleteMonitor(c, id, net) ==
    LET r == doRequest(c, "DELETE", Path("/uptime/monitors", <<id>>, ""), NoBody, net)
    IN  Undecoded(r, "failed to delete monitor: ")

PauseMonitor(c, id, net) ==
    LET r == doRequest(c, "POST", Path("/uptime/monitors", <<id>>, "/pause"), NoBody, net)
    IN  Undecoded(r, "failed to pause monitor: ")

ResumeMonitor_pauses(c, id, net) ==
    LET r == doRequest(c, "POST", Path("/uptime/monitors", <<id>>, "/pause"), NoBody, net)
    IN  Undecoded(r, "failed to resume monitor: ")
ResumeMonitor(c, id, net) ==
    LET r == doRequest(c, "POST", Path("/uptime/monitors", <<id>>, "/resume"), NoBody, net)
    IN  Undecoded(r, "failed to resume monitor: ")

ListMonitors(c, net) ==
    LET r == doRequest(c, "GET", Path("/uptime/monitors", <<>>, ""), NoBody, net)
    IN  Decoded(r, "failed to list monitors: ", DecList(BodyOf(r), UnmarshalMonitor))

(***************************************************************************)
(* Status pages (StatusPage, StatusPageColors, StatusComponent and the     *)
(* client operations on them).                                             *)
(***************************************************************************)
MarshalStatusPageColors(c) ==
    JObj(("operational" :> JStr(c.Operational))
         @@ ("degradedPerformance" :> JStr(c.DegradedPerformance))
         @@ ("partialOutage" :> JStr(c.PartialOutage))
         @@ ("majorOutage" :> JStr(c.MajorOutage))
         @@ ("maintenance" :> JStr(c.Maintenance))
         @@ ("empty" :> JStr(c.Empty)))

UnmarshalStatusPageColors(j) ==
    LET o  == Members(j)
        op == DecString(o, "operational")
        dp == DecString(o, "degradedPerformance")
        po == DecString(o, "partialOutage")
        mo == DecString(o, "majorOutage")
        ma == DecString(o, "maintenance")
        em == DecString(o, "empty")
    IN  [ok |-> StructDocOK(j) /\ op.ok /\ dp.ok /\ po.ok /\ mo.ok /\ ma.ok /\ em.ok,
         v  |-> [Operational |-> op.v, DegradedPerformance |-> dp.v,
                 PartialOutage |-> po.v, MajorOutage |-> mo.v,
                 Maintenance |-> ma.v, Empty |-> em.v]]

MarshalStatusComponent(c) ==
    JObj(("componentable_type" :> JStr(c.ComponentableType))
         @@ ("componentable_id" :> JNum(c.ComponentableID)))

UnmarshalStatusComponent(j) ==
    LET o == Members(j)
        t == DecString(o, "componentable_type")
        i == DecInt(o, "componentable_id")
    IN  [ok |-> StructDocOK(j) /\ t.ok /\ i.ok,
         v  |-> [ComponentableType |-> t.v, ComponentableID |-> i.v]]

MarshalStatusPage(p) ==
    JObj(OmitEmpty("id", p.ID, JNum)
         @@ ("name" :> JStr(p.Name))
         @@ ("title" :> JStr(p.Title))
         @@ ("description" :> JStr(p.Description))
         @@ ("search_engine_indexed" :> JBool(p.SearchEngineIndexed))
         @@ ("website_url" :> JStr(p.WebsiteURL))
         @@ OmitEmpty("subdomain", p.Subdomain, JStr)
         @@ OmitEmpty("domain", p.Domain, JStr)
         @@ OmitEmpty("timeframe", p.Timeframe, JNum)
         @@ ("colors" :> MarshalStatusPageColors(p.Colors))
         @@ ("components" :>
                JArr([i \in 1..Len(p.Components) |-> MarshalStatusComponent(p.Components[i])]))
         @@ OmitEmpty("logo", p.Logo, JStr)
         @@ OmitEmpty("favicon", p.Favicon, JStr)
         @@ OmitEmpty("created_at", p.CreatedAt, JStr)
         @@ OmitEmpty("updated_at", p.UpdatedAt, JStr))

\* json.Unmarshal(respBody, &StatusPage{})
UnmarshalStatusPage(j) ==
    LET o  == Members(j)
        id == DecIntPtr(o, "id")
        n  == DecString(o, "name")
        t  == DecString(o, "title")
        d  == DecString(o, "description")
        se == DecBool(o, "search_engine_indexed")
        w  == DecString(o, "website_url")
        sd == DecStringPtr(o, "subdomain")
        dm == DecStringPtr(o, "domain")
        tf0 == DecIntPtr(o, "timeframe")
        cs == DecStruct(o, "colors", UnmarshalStatusPageColors)
        cp == DecStructs(o, "components", UnmarshalStatusComponent)
        lg == DecStringPtr(o, "logo")
        fv == DecStringPtr(o, "favicon")
        ca == DecStringPtr(o, "created_at")
        ua == DecStringPtr(o, "updated_at")
    IN  [ok |-> StructDocOK(j) /\ id.ok /\ n.ok /\ t.ok /\ d.ok /\ se.ok /\ w.ok
                /\ sd.ok /\ dm.ok /\ tf0.ok /\ cs.ok /\ cp.ok /\ lg.ok /\ fv.ok
                /\ ca.ok /\ ua.ok,
         v  |-> [ID |-> id.v, Name |-> n.v, Title |-> t.v, Description |-> d.v,
                 SearchEngineIndexed |-> se.v, WebsiteURL |-> w.v, Subdomain |-> sd.v,
                 Domain |-> dm.v, Timeframe |-> tf0.v, Colors |-> cs.v,
                 Components |-> cp.v, Logo |-> lg.v, Favicon |-> fv.v,
                 CreatedAt |-> ca.v, UpdatedAt |-> ua.v]]

CreateStatusPage(c, page, net) ==
    LET r == doRequest(c, "POST", Path("/uptime/status-pages", <<>>, ""), MarshalStatusPage(page), net)
    IN  Decoded(r, "failed to create status page: ", UnmarshalStatusPage(BodyOf(r)))

GetStatusPage(c, id, net) ==
    LET r == doRequest(c, "GET", Path("/uptime/status-pages", <<id>>, ""), NoBody, net)
    IN  Decoded(r, "failed to get status page: ", UnmarshalStatusPage(BodyOf(r)))

UpdateStatusPage(c, id, page, net) ==
    LET r == doRequest(c, "POST", Path("/uptime/status-pages", <<id>>, ""), MarshalStatusPage(page), net)
    IN  Decoded(r, "failed to update status page: ", UnmarshalStatusPage(BodyOf(r)))

DeleteStatusPage(c, id, net) ==
    LET r == doRequest(c, "DELETE", Path("/uptime/status-pages", <<id>>, ""), NoBody, net)
    IN  Undecoded(r, "failed to delete status page: ")

ListStatusPages(c, net) ==
    LET r == doRequest(c, "GET", Path("/uptime/status-pages", <<>>, ""), NoBody, net)
    IN  Decoded(r, "failed to list status pages: ", DecList(BodyOf(r), UnmarshalStatusPage))

(***************************************************************************)
(* Incidents (Incident and the client operations on it).                   *)
(***************************************************************************)
MarshalIncident(x) ==
    JObj(OmitEmpty("id", x.ID, JNum)
         @@ OmitEmpty("project_id", x.ProjectID, JNum)
         @@ ("title" :> JStr(x.Title))
         @@ ("slug" :> JStr(x.Slug))
         @@ ("impact" :> JStr(x.Impact))
         @@ ("state" :> JStr(x.State))
         @@ ("description" :> JStr(x.Description))
         @@ ("exclude_from_downtime" :> JBool(x.ExcludeFromDowntime))
         @@ ("status" :> JStr(x.Status))
         @@ ("incident_at" :> JStr(x.IncidentAt))
         @@ OmitEmpty("recovery_at", x.RecoveryAt, JStr)
         @@ OmitEmpty("created_at", x.CreatedAt, JStr)
         @@ OmitEmpty("updated_at", x.UpdatedAt, JStr))

\* json.Unmarshal(respBody, &Incident{})
UnmarshalIncident(j) ==
    LET o  == Members(j)
        id == DecIntPtr(o, "id")
        pj == DecIntPtr(o, "project_id")
        t  == DecString(o, "title")
        sl == DecString(o, "slug")
        im == DecString(o, "impact")
        st == DecString(o, "state")
        d  == DecString(o, "description")
        ex == DecBool(o, "exclude_from_downtime")
        ss == DecString(o, "status")
        ia == DecString(o, "incident_at")
        ra == DecStringPtr(o, "recovery_at")
        ca == DecStringPtr(o, "created_at")
        ua == DecStringPtr(o, "updated_at")
    IN  [ok |-> StructDocOK(j) /\ id.ok /\ pj.ok /\ t.ok /\ sl.ok /\ im.ok /\ st.ok
                /\ d.ok /\ ex.ok /\ ss.ok /\ ia.ok /\ ra.ok /\ ca.ok /\ ua.ok,
         v  |-> [ID |-> id.v, ProjectID |-> pj.v, Title |-> t.v, Slug |-> sl.v,
                 Impact |-> im.v, State |-> st.v, Description |-> d.v,
                 ExcludeFromDowntime |-> ex.v, Status |-> ss.v, IncidentAt |-> ia.v,
                 RecoveryAt |-> ra.v, CreatedAt |-> ca.v, UpdatedAt |-> ua.v]]

GetIncident(c, id, net) ==
    LET r == doRequest(c, "GET", Path("/uptime/incidents", <<id>>, ""), NoBody, net)
    IN  Decoded(r, "failed to get incident: ", UnmarshalIncident(BodyOf(r)))

DeleteIncident(c, id, net) ==
    LET r == doRequest(c, "DELETE", Path("/uptime/incidents", <<id>>, ""), NoBody, net)
    IN  Undecoded(r, "failed to delete incident: ")

ListIncidents(c, net) ==
    LET r == doRequest(c, "GET", Path("/uptime/incidents", <<>>, ""), NoBody, net)
    IN  Decoded(r, "failed to list incidents: ", DecList(BodyOf(r), UnmarshalIncident))

(***************************************************************************)
(* The environment: the values callers pass and the answers of the server. *)
(***************************************************************************)
Tokens   == {"", "phare_tok_A", "phare_tok_B"}
BaseURLs == {"", DefaultBaseURL, "http://localhost:8080", MalformedBaseURL}
IDs      == {7, 42}
Statuses == {200, 399, 400, 404, 422}

ZeroMonitorRequest == UnmarshalMonitorRequest(JNull).v

HTTPSampleMonitor ==
    [ID |-> <<>>, Name |-> "web", Protocol |-> "http",
     Request |-> [ZeroMonitorRequest EXCEPT
                    !.Method = <<"GET">>, !.URL = <<"https://example.com">>,
                    !.TLSSkipVerify = <<FALSE>>, !.FollowRedirects = <<TRUE>>,
                    !.Headers = <<[Name |-> "X-Probe", Value |-> "1"]>>],
     Interval |-> 60, Timeout |-> 5000,
     IncidentConfirmations |-> 1, RecoveryConfirmations |-> 2,
     Regions |-> <<"na-usa-iad">>,
     SuccessAssertions |-> <<[Type |-> "status_code", Operator |-> <<"in">>,
                              Value |-> <<"2xx">>, Property |-> <<>>]>>,
     Paused |-> <<>>, CreatedAt |-> <<>>, UpdatedAt |-> <<>>]

TCPSampleMonitor ==
    [ID |-> <<>>, Name |-> "db", Protocol |-> "tcp",
     Request |-> [ZeroMonitorRequest EXCEPT
                    !.Host = <<"db.example.com">>, !.Port = <<"5432">>,
                    !.Connection = <<"plain">>, !.TLSSkipVerify = <<FALSE>>],
     Interval |-> 30, Timeout |-> 1000,
     IncidentConfirmations |-> 1, RecoveryConfirmations |-> 1,
     Regions |-> <<"eu-deu-fra", "na-usa-iad">>,
     SuccessAssertions |-> <<>>,
     Paused |-> <<>>, CreatedAt |-> <<>>, UpdatedAt |-> <<>>]

SampleMonitors == {HTTPSampleMonitor, TCPSampleMonitor}

SampleAlertRules ==
    {[ID |-> <<>>, Event |-> "uptime.incident.created", IntegrationID |-> 64493,
      RateLimit |-> rl, EventSettings |-> [Type |-> "all"], ProjectID |-> pid,
      CreatedAt |-> <<>>, UpdatedAt |-> <<>>] : rl \in {0, 5}, pid \in {<<>>, <<3>>}}

SampleStatusPages ==
    {[ID |-> <<>>, Name |-> "Test Status Page", Title |-> "Test Status",
      Description |-> "Status of our services", SearchEngineIndexed |-> FALSE,
      WebsiteURL |-> "https://example.com", Subdomain |-> <<"status">>,
      Domain |-> dm, Timeframe |-> <<90>>,
      Colors |-> [Operational |-> "#16a34a", DegradedPerformance |-> "#fbbf24",
                  PartialOutage |-> "#f59e0b", MajorOutage |-> "#ef4444",
                  Maintenance |-> "#6366f1", Empty |-> "#d3d3d3"],
      Components |-> <<[ComponentableType |-> "uptime/monitor", ComponentableID |-> 42]>>,
      Logo |-> <<>>, Favicon |-> <<>>, CreatedAt |-> <<>>, UpdatedAt |-> <<>>]
        : dm \in {<<>>, <<"status.example.com">>}}

SampleIncidents ==
    {[ID |-> <<>>, ProjectID |-> <<3>>, Title |-> "Outage", Slug |-> "outage",
      Impact |-> "majorOutage", State |-> "investigating", Description |-> "down",
      ExcludeFromDowntime |-> FALSE, Status |-> "ongoing",
      IncidentAt |-> "2024-01-01T00:00:00Z", RecoveryAt |-> <<>>,
      CreatedAt |-> <<>>, UpdatedAt |-> <<>>]}

\* the marshalled samples of one resource kind
SampleObjects(kind) ==
    CASE kind = "alert"    -> {MarshalAlertRule(e).o : e \in SampleAlertRules}
      [] kind = "monitor"  -> {MarshalMonitor(e).o : e \in SampleMonitors}
      [] kind = "page"     -> {MarshalStatusPage(e).o : e \in SampleStatusPages}
      [] kind = "incident" -> {MarshalIncident(e).o : e \in SampleIncidents}

\* what the server stores once it has assigned the id: the members it was sent (or a
\* stored entity), the id, and its timestamps
Stored(o, id) ==
    ("id" :> JNum(id)) @@ ("created_at" :> JStr("2024-01-01T00:00:00Z"))
      @@ ("updated_at" :> JStr("2024-01-02T00:00:00Z")) @@ o

\* the entity objects the server may answer a request with: the entity of the
\* request's body when it has one (with an id, or without any), a stored one otherwise
AnswerObjects(kind, reqBody) ==
    IF reqBody.k = "obj"
    THEN {Stored(reqBody.o, i) : i \in IDs} \cup {reqBody.o}
    ELSE {Stored(o, i) : o \in SampleObjects(kind), i \in IDs}

\* the two shapes of a single-item answer
Bare(o)     == JObj(o)
Envelope(o) == JObj("data" :> JObj(o))

\* the error envelopes {"message": ..., "errors": {field: [message, ...]}}
ValidationMessages == <<"is too short", "is required", "is reserved">>
ErrorsMaps ==
    {("name" :> JArr([i \in 1..n |-> JStr(ValidationMessages[i])])) : n \in 0..MaxErrMsgs}
    \cup {("name" :> JArr([i \in 1..n |-> JStr(ValidationMessages[i])]))
          @@ ("interval" :> JArr(<<JStr("must be one of 30, 60")>>)) : n \in 1..MaxErrMsgs}
ErrorEnvelopes ==
    {JObj("message" :> JStr("Not found")),
     JObj(("message" :> JStr("The given data was invalid.")) @@ ("errors" :> JObj(NoFields)))}
    \cup {JObj(("message" :> JStr("The given data was invalid.")) @@ ("errors" :> JObj(m)))
            : m \in ErrorsMaps}

\* bodies that are no entity, list or error envelope
OddBodies ==
    {JInvalid("<html>502 Bad Gateway</html>"), JInvalid(""), JNull, JObj(NoFields),
     JArr(<<>>), JStr("ok"),
     JObj("id" :> JStr("forty-two")),
     JObj("message" :> JNum(5)),
     JObj(("message" :> JStr("Invalid")) @@ ("errors" :> JStr("name is required"))),
     JObj("error" :> JStr("boom"))}

RECURSIVE SeqsUpTo(_, _)
SeqsUpTo(S, n) ==
    IF n = 0 THEN {<<>>}
    ELSE LET shorter == SeqsUpTo(S, n - 1)
         IN  shorter \cup {Append(s, x) : s \in {t \in shorter : Len(t) = n - 1}, x \in S}

ListBodies(kind) ==
    {JObj("data" :> JArr(xs)) :
        xs \in SeqsUpTo({JObj(Stored(o, 7)) : o \in SampleObjects(kind)}, MaxListLen)}

Bodies(kind, reqBody, isList) ==
    OddBodies \cup ErrorEnvelopes
    \cup (IF isList THEN ListBodies(kind)
          ELSE {Bare(o) : o \in AnswerObjects(kind, reqBody)}
               \cup {Envelope(o) : o \in AnswerObjects(kind, reqBody)})

\* the outcomes of one HTTP exchange: the transport fails (Do), the body cannot be
\* read (ReadAll), or a status and a body arrive
NoNet == [fail |-> "none", cause |-> "", status |-> 0, body |-> JNull]
TransportFailures ==
    {[fail |-> "do", cause |-> c, status |-> 0, body |-> JNull]
        : c \in {"dial tcp: connection refused", "context canceled",
                 "context deadline exceeded"}}
    \cup {[fail |-> "read", cause |-> "unexpected EOF", status |-> 200, body |-> JNull]}
Nets(kind, reqBody, isList) ==
    TransportFailures
    \cup {[fail |-> "", cause |-> "", status |-> s, body |-> b]
            : s \in Statuses, b \in Bodies(kind, reqBody, isList)}

(***************************************************************************)
(* The client in use: construction, then any sequence of operations.       *)
(***************************************************************************)
\* the state Terraform holds, per kind of object (<<>>: none); one object is under
\* management at a time
NoState == [alert |-> <<>>, page |-> <<>>, monitor |-> <<>>, incident |-> <<>>]

\* no call is in progress
Idle == [op |-> "none", in |-> [id |-> <<>>, entity |-> <<>>], net |-> NoNet,
         sent |-> <<>>, out |-> <<>>, err |-> NoErr, diag |-> <<>>]

Init ==
    /\ client = <<>>
    /\ last = Idle
    /\ tf = NoState

\* a caller builds a client
CallNewClient ==
    /\ last = Idle
    /\ \E apiToken \in Tokens, baseURL \in BaseURLs :
        LET r == NewClient(apiToken, baseURL)
        IN  /\ client' = r.client
            /\ last' = [op |-> "NewClient",
                        in |-> [apiToken |-> apiToken, baseURL |-> baseURL],
                        net |-> NoNet, sent |-> <<>>, out |-> r.client, err |-> r.err,
                        diag |-> <<>>]
            /\ UNCHANGED tf

\* a caller ran the operation op of the client on the input in, the exchange went as
\* net says, and the operation returned r
Called(op, in, net, r) ==
    /\ last' = [op |-> op, in |-> in, net |-> net,
                sent |-> r.sent, out |-> r.out, err |-> r.err, diag |-> <<>>]
    /\ UNCHANGED <<client, tf>>

CallCreateAlertRule ==
    /\ last = Idle /\ client # <<>>
    /\ \E e \in SampleAlertRules : \E net \in Nets("alert", MarshalAlertRule(e), FALSE) :
          Called("CreateAlertRule", [id |-> <<>>, entity |-> <<e>>], net,
                 CreateAlertRule(client[1], e, net))

CallGetAlertRule ==
    /\ last = Idle /\ client # <<>>
    /\ \E id \in IDs : \E net \in Nets("alert", NoBody, FALSE) :
          Called("GetAlertRule", [id |-> <<id>>, entity |-> <<>>], net,
                 GetAlertRule(client[1], id, net))

CallUpdateAlertRule ==
    /\ last = Idle /\ client # <<>>
    /\ \E id \in IDs, e \in SampleAlertRules : \E net \in Nets("alert", MarshalAlertRule(e), FALSE) :
          Called("UpdateAlertRule", [id |-> <<id>>, entity |-> <<e>>], net,
                 UpdateAlertRule(client[1], id, e, net))

CallDeleteAlertRule ==
    /\ last = Idle /\ client # <<>>
    /\ \E id \in IDs : \E net \in Nets("alert", NoBody, FALSE) :
          Called("DeleteAlertRule", [id |-> <<id>>, entity |-> <<>>], net,
                 DeleteAlertRule(client[1], id, net))

CallListAlertRules ==
    /\ last = Idle /\ client # <<>>
    /\ \E net \in Nets("alert", NoBody, TRUE) :
          Called("ListAlertRules", [id |-> <<>>, entity |-> <<>>], net,
                 ListAlertRules(client[1], net))

CallCreateMonitor ==
    /\ last = Idle /\ client # <<>>
    /\ \E e \in SampleMonitors : \E net \in Nets("monitor", MarshalMonitor(e), FALSE) :
          Called("CreateMonitor", [id |-> <<>>, entity |-> <<e>>], net,
                 CreateMonitor(client[1], e, net))

CallGetMonitor ==
    /\ last = Idle /\ client # <<>>
    /\ \E id \in IDs : \E net \in Nets("monitor", NoBody, FALSE) :
          Called("GetMonitor", [id |-> <<id>>, entity |-> <<>>], net,
                 GetMonitor(client[1], id, net))

CallUpdateMonitor ==
    /\ last = Idle /\ client # <<>>
    /\ \E id \in IDs, e \in SampleMonitors : \E net \in Nets("monitor", MarshalMonitor(e), FALSE) :
          Called("UpdateMonitor", [id |-> <<id>>, entity |-> <<e>>], net,
                 UpdateMonitor(client[1], id, e, net))

CallDeleteMonitor ==
    /\ last = Idle /\ client # <<>>
    /\ \E id \in IDs : \E net \in Nets("monitor", NoBody, FALSE) :
          Called("DeleteMonitor", [id |-> <<id>>, entity |-> <<>>], net,
                 DeleteMonitor(client[1], id, net))

CallPauseMonitor ==
    /\ last = Idle /\ client # <<>>
    /\ \E id \in IDs : \E net \in Nets("monitor", NoBody, FALSE) :
          Called("PauseMonitor", [id |-> <<id>>, entity |-> <<>>], net,
                 PauseMonitor(client[1], id, net))

CallResumeMonitor ==
    /\ last = Idle /\ client # <<>>
    /\ \E id \in IDs : \E net \in Nets("monitor", NoBody, FALSE) :
          Called("ResumeMonitor", [id |-> <<id>>, entity |-> <<>>], net,
                 ResumeMonitor(client[1], id, net))

CallListMonitors ==
    /\ last = Idle /\ client # <<>>
    /\ \E net \in Nets("monitor", NoBody, TRUE) :
          Called("ListMonitors", [id |-> <<>>, entity |-> <<>>], net,
                 ListMonitors(client[1], net))

CallCreateStatusPage ==
    /\ last = Idle /\ client # <<>>
    /\ \E e \in SampleStatusPages : \E net \in Nets("page", MarshalStatusPage(e), FALSE) :
          Called("CreateStatusPage", [id |-> <<>>, entity |-> <<e>>], net,
                 CreateStatusPage(client[1], e, net))

CallGetStatusPage ==
    /\ last = Idle /\ client # <<>>
    /\ \E id \in IDs : \E net \in Nets("page", NoBody, FALSE) :
          Called("GetStatusPage", [id |-> <<id>>, entity |-> <<>>], net,
                 GetStatusPage(client[1], id, net))

CallUpdateStatusPage ==
    /\ last = Idle /\ client # <<>>
    /\ \E id \in IDs, e \in SampleStatusPages : \E net \in Nets("page", MarshalStatusPage(e), FALSE) :
          Called("UpdateStatusPage", [id |-> <<id>>, entity |-> <<e>>], net,
                 UpdateStatusPage(client[1], id, e, net))

CallDeleteStatusPage ==
    /\ last = Idle /\ client # <<>>
    /\ \E id \in IDs : \E net \in Nets("page", NoBody, FALSE) :
          Called("DeleteStatusPage", [id |-> <<id>>, entity |-> <<>>], net,
                 DeleteStatusPage(client[1], id, net))

CallListStatusPages ==
    /\ last = Idle /\ client # <<>>
    /\ \E net \in Nets("page", NoBody, TRUE) :
          Called("ListStatusPages", [id |-> <<>>, entity |-> <<>>], net,
                 ListStatusPages(client[1], net))

CallGetIncident ==
    /\ last = Idle /\ client # <<>>
    /\ \E id \in IDs : \E net \in Nets("incident", NoBody, FALSE) :
          Called("GetIncident", [id |-> <<id>>, entity |-> <<>>], net,
                 GetIncident(client[1], id, net))

CallDeleteIncident ==
    /\ last = Idle /\ client # <<>>
    /\ \E id \in IDs : \E net \in Nets("incident", NoBody, FALSE) :
          Called("DeleteIncident", [id |-> <<id>>, entity |-> <<>>], net,
                 DeleteIncident(client[1], id, net))

CallListIncidents ==
    /\ last = Idle /\ client # <<>>
    /\ \E net \in Nets("incident", NoBody, TRUE) :
          Called("ListIncidents", [id |-> <<>>, entity |-> <<>>], net,
                 ListIncidents(client[1], net))

\* the request primitive called on its own
CalldoRequest ==
    /\ last = Idle /\ client # <<>>
    /\ \E method \in {"GET", "POST", "DELETE"}, id \in {<<>>, <<7>>},
          body \in {NoBody} \cup {MarshalAlertRule(e) : e \in SampleAlertRules} :
        \E net \in Nets("alert", body, FALSE) :
          LET r == doRequest(client[1], method, Path("/alert-rules", id, ""), body, net)
          IN  Called("doRequest", [id |-> id, entity |-> <<body>>], net,
                     [sent |-> r.sent, out |-> r.body, err |-> r.err])

\* the caller has taken the results of the call
Return ==
    /\ last # Idle
    /\ last' = Idle
    /\ UNCHANGED <<client, tf>>

Next ==
    \/ Return
    \/ CallNewClient
    \/ CalldoRequest
    \/ CallCreateAlertRule
    \/ CallGetAlertRule
    \/ CallUpdateAlertRule
    \/ CallDeleteAlertRule
    \/ CallListAlertRules
    \/ CallCreateMonitor
    \/ CallGetMonitor
    \/ CallUpdateMonitor
    \/ CallDeleteMonitor
    \/ CallPauseMonitor
    \/ CallResumeMonitor
    \/ CallListMonitors
    \/ CallCreateStatusPage
    \/ CallGetStatusPage
    \/ CallUpdateStatusPage
    \/ CallDeleteStatusPage
    \/ CallListStatusPages
    \/ CallGetIncident
    \/ CallDeleteIncident
    \/ CallListIncidents

Spec == Init /\ [][Next]_vars

(***************************************************************************)
(* The provider: the values of the declarative models.                     *)
(***************************************************************************)
\* one framework value: null, unknown or known (st), and, by type, the string s, the
\* decimal text d (the strings that hold an id), the integer n, the boolean b or the
\* attributes o of an object or the elements l of a list
TfValue(st, s, d, n, b, o, l) ==
    [st |-> st, s |-> s, d |-> d, n |-> n, b |-> b, o |-> o, l |-> l]
TfNull       == TfValue("null", "", <<>>, 0, FALSE, <<>>, <<>>)
TfUnknown    == TfValue("unknown", "", <<>>, 0, FALSE, <<>>, <<>>)
TfString(s)  == TfValue("known", s, <<>>, 0, FALSE, <<>>, <<>>)  \* types.StringValue(s)
TfText(d)    == TfValue("known", "", d, 0, FALSE, <<>>, <<>>)    \* types.StringValue of a decimal text
TfInt64(n)   == TfValue("known", "", <<>>, n, FALSE, <<>>, <<>>) \* types.Int64Value(n)
TfBool(b)    == TfValue("known", "", <<>>, 0, b, <<>>, <<>>)     \* types.BoolValue(b)
TfObject(o)  == TfValue("known", "", <<>>, 0, FALSE, o, <<>>)    \* types.ObjectValue(..., o)
TfList(l)    == TfValue("known", "", <<>>, 0, FALSE, <<>>, l)    \* types.ListValue(..., l)
\* IsNull, and the Value* getters: the zero value unless the value is known
IsNull(x)      == x.st = "null"
ValueString(x) == IF x.st = "known" THEN x.s ELSE ""
ValueText(x)   == IF x.st = "known" THEN x.d ELSE <<>>
ValueInt64(x)  == IF x.st = "known" THEN x.n ELSE 0
ValueBool(x)   == IF x.st = "known" THEN x.b ELSE FALSE
\* types.StringPointerValue(p), types.BoolPointerValue(p): null for a nil pointer
StringPointerValue(p) == IF p = <<>> THEN TfNull ELSE TfString(p[1])
BoolPointerValue(p)   == IF p = <<>> THEN TfNull ELSE TfBool(p[1])
\* stringPtr(s), boolPtr(b): a pointer is a sequence of at most one element
stringPtr(s) == <<s>>
boolPtr(b)   == <<b>>

\* diagnostics: resp.Diagnostics.AddError(summary, detail)
Diag(summary, detail) == [summary |-> summary, detail |-> detail]
NoDiags == <<>>
\* strconv.Atoi's error and the "Invalid ... ID" diagnostic built from it
InvalidID(summary, prefix) ==
    <<Diag(summary, <<PLit(prefix), PCause("strconv.Atoi: invalid syntax")>>)>>

\* what a handler leaves: the requests it issued, the entity and the error of its last
\* client call, its diagnostics, and the state (<<>>: none) after it
Handled(sent, out, err, diag, state) ==
    [sent |-> sent, out |-> out, err |-> err, diag |-> diag, state |-> state]

\* resource.ImportStatePassthroughID(ctx, path.Root("id"), req, resp): a state whose
\* id is the given text and whose other attributes are null
ImportStatePassthroughID(model, id) == [model EXCEPT !.ID = TfText(id)]

(***************************************************************************)
(* The provider: unpacking of nested values.                               *)
(***************************************************************************)
ConversionError == <<Diag("Value Conversion Error", <<PLit("cannot be handled by the target type")>>)>>

\* List.ElementsAs(ctx, &target, false): a null list leaves the slice nil; an unknown
\* list, or an element that is not known, is an error and leaves the slice nil
ElementsAs(list) ==
    IF list.st = "null" THEN [v |-> <<>>, diags |-> NoDiags]
    ELSE IF list.st = "unknown" \/ \E i \in 1..Len(list.l) : list.l[i].st # "known"
    THEN [v |-> <<>>, diags |-> ConversionError]
    ELSE [v |-> list.l, diags |-> NoDiags]

\* Object.As(ctx, &target, basetypes.ObjectAsOptions{}): a null or unknown object is
\* an error and leaves the target struct zero
ObjectAs(obj, zero) ==
    IF obj.st = "known" THEN [v |-> obj.o, diags |-> NoDiags]
    ELSE [v |-> zero, diags |-> ConversionError]

HasError(diags) == diags # NoDiags

(***************************************************************************)
(* provider.go: the configuration of the provider.                         *)
(***************************************************************************)
\* Configure(ctx, req, resp) on the configured api_token and base_url (framework
\* strings) and the environment variables (strings, "" when unset): [client, diag]
Configure_envFirst(apiTokenAttr, baseURLAttr, envToken, envURL) ==
    LET apiToken == IF envToken # "" THEN envToken ELSE ValueString(apiTokenAttr)
        baseURL  == IF envURL # "" THEN envURL
                    ELSE IF ~IsNull(baseURLAttr) THEN ValueString(baseURLAttr)
                    ELSE DefaultBaseURL
        r        == NewClient(apiToken, baseURL)
    IN  IF apiToken = ""
        THEN [client |-> <<>>,
              diag   |-> <<Diag("Missing API Token Configuration",
                                <<PLit("API token must be configured either via the provider configuration or the PHARE_API_TOKEN environment variable.")>>)>>]
        ELSE [client |-> r.client, diag |-> NoDiags]
Configure(apiTokenAttr, baseURLAttr, envToken, envURL) ==
    LET apiToken == IF ~IsNull(apiTokenAttr) THEN ValueString(apiTokenAttr) ELSE envToken
        baseURL  == IF ~IsNull(baseURLAttr) THEN ValueString(baseURLAttr)
                    ELSE IF envURL # "" THEN envURL
                    ELSE DefaultBaseURL
        r        == NewClient(apiToken, baseURL)
    IN  IF apiToken = ""
        THEN [client |-> <<>>,
              diag   |-> <<Diag("Missing API Token Configuration",
                                <<PLit("API token must be configured either via the provider configuration or the PHARE_API_TOKEN environment variable.")>>)>>]
        ELSE IF r.err # NoErr
        THEN [client |-> <<>>,
              diag   |-> <<Diag("Unable to Create Phare API Client",
                                <<PLit("An unexpected error occurred when creating the Phare API client. Error: ")>> \o r.err)>>]
        ELSE [client |-> r.client, diag |-> NoDiags]

(***************************************************************************)
(* alert_rule_resource.go: the alert rule resource.                        *)
(***************************************************************************)
\* AlertRuleResourceModel with every attribute null
NullAlertRuleModel ==
    [ID |-> TfNull, Event |-> TfNull, IntegrationID |-> TfNull, RateLimit |-> TfNull,
     EventSettings |-> TfNull, ProjectID |-> TfNull, CreatedAt |-> TfNull,
     UpdatedAt |-> TfNull]

\* the client.AlertRule that Create and Update build from the plan
AlertRuleFromPlan_noRateLimit(data) ==
    [ID |-> <<>>,
     Event |-> ValueString(data.Event),
     IntegrationID |-> ValueInt64(data.IntegrationID),
     RateLimit |-> 0,
     EventSettings |-> [Type |-> ValueString(data.EventSettings.o.type)],
     ProjectID |-> IF ~IsNull(data.ProjectID) THEN <<ValueInt64(data.ProjectID)>> ELSE <<>>,
     CreatedAt |-> <<>>, UpdatedAt |-> <<>>]
AlertRuleFromPlan(data) ==
    [ID |-> <<>>,
     Event |-> ValueString(data.Event),
     IntegrationID |-> ValueInt64(data.IntegrationID),
     RateLimit |-> ValueInt64(data.RateLimit),
     EventSettings |-> [Type |-> ValueString(data.EventSettings.o.type)],
     ProjectID |-> IF ~IsNull(data.ProjectID) THEN <<ValueInt64(data.ProjectID)>> ELSE <<>>,
     CreatedAt |-> <<>>, UpdatedAt |-> <<>>]

\* data.EventSettings.As(ctx, &eventSettings, basetypes.ObjectAsOptions{}): a null or
\* unknown object cannot be unpacked
EventSettingsAs(data) ==
    IF data.EventSettings.st = "known" THEN NoDiags
    ELSE <<Diag("Value Conversion Error", <<PLit("Received null or unknown value")>>)>>

\* apiToTerraformModel(rule, data)
AlertRule_apiToTerraformModel_overwrite(rule, data) ==
    [data EXCEPT
        !.ID = IF rule.ID # <<>> THEN TfText(Itoa(rule.ID[1])) ELSE @,
        !.Event = TfString(rule.Event),
        !.IntegrationID = TfInt64(rule.IntegrationID),
        !.RateLimit = TfInt64(rule.RateLimit),
        !.EventSettings = TfObject([type |-> TfString(rule.EventSettings.Type)]),
        !.ProjectID = IF rule.ProjectID # <<>> THEN TfInt64(rule.ProjectID[1]) ELSE TfNull,
        !.CreatedAt = IF rule.CreatedAt # <<>> THEN TfString(rule.CreatedAt[1]) ELSE @,
        !.UpdatedAt = IF rule.UpdatedAt # <<>> THEN TfString(rule.UpdatedAt[1]) ELSE @]
AlertRule_apiToTerraformModel(rule, data) ==
    [data EXCEPT
        !.ID = IF rule.ID # <<>> THEN TfText(Itoa(rule.ID[1])) ELSE @,
        !.Event = TfString(rule.Event),
        !.IntegrationID = TfInt64(rule.IntegrationID),
        !.RateLimit = TfInt64(rule.RateLimit),
        !.EventSettings = IF rule.EventSettings.Type # ""
                          THEN TfObject([type |-> TfString(rule.EventSettings.Type)]) ELSE @,
        !.ProjectID = IF rule.ProjectID # <<>> THEN TfInt64(rule.ProjectID[1]) ELSE TfNull,
        !.CreatedAt = IF rule.CreatedAt # <<>> THEN TfString(rule.CreatedAt[1]) ELSE @,
        !.UpdatedAt = IF rule.UpdatedAt # <<>> THEN TfString(rule.UpdatedAt[1]) ELSE @]

\* Create(ctx, req, resp) on the plan data, no prior state; nets are the outcomes of
\* the exchanges it gets to
AlertRuleResource_Create_noIDCheck(c, data, nets) ==
    LET afterReadBack(created, fullRule) ==
            IF fullRule.err # NoErr
            THEN Handled(created.sent \o fullRule.sent, <<>>, fullRule.err,
                         <<Diag("Failed to read created alert rule", fullRule.err)>>, <<>>)
            ELSE Handled(created.sent \o fullRule.sent, fullRule.out, NoErr, NoDiags,
                         <<AlertRule_apiToTerraformModel(fullRule.out[1], data)>>)
        afterCreate(created) ==
            IF created.err # NoErr
            THEN Handled(created.sent, <<>>, created.err,
                         <<Diag("Failed to create alert rule", created.err)>>, <<>>)
            ELSE IF created.out[1].ID = <<>>
            THEN Handled(created.sent, created.out, NoErr, NoDiags,
                         <<AlertRule_apiToTerraformModel(created.out[1], data)>>)
            ELSE afterReadBack(created, GetAlertRule(c, created.out[1].ID[1], nets[2]))
    IN  IF EventSettingsAs(data) # NoDiags
        THEN Handled(<<>>, <<>>, NoErr, EventSettingsAs(data), <<>>)
        ELSE afterCreate(CreateAlertRule(c, AlertRuleFromPlan(data), nets[1]))
AlertRuleResource_Create(c, data, nets) ==
    LET afterReadBack(created, fullRule) ==
            IF fullRule.err # NoErr
            THEN Handled(created.sent \o fullRule.sent, <<>>, fullRule.err,
                         <<Diag("Failed to read created alert rule", fullRule.err)>>, <<>>)
            ELSE Handled(created.sent \o fullRule.sent, fullRule.out, NoErr, NoDiags,
                         <<AlertRule_apiToTerraformModel(fullRule.out[1], data)>>)
        afterCreate(created) ==
            IF created.err # NoErr
            THEN Handled(created.sent, <<>>, created.err,
                         <<Diag("Failed to create alert rule", created.err)>>, <<>>)
            ELSE IF created.out[1].ID = <<>>
            THEN Handled(created.sent, created.out, NoErr,
                         <<Diag("Failed to create alert rule",
                                <<PLit("API did not return an alert rule ID")>>)>>, <<>>)
            ELSE afterReadBack(created, GetAlertRule(c, created.out[1].ID[1], nets[2]))
    IN  IF EventSettingsAs(data) # NoDiags
        THEN Handled(<<>>, <<>>, NoErr, EventSettingsAs(data), <<>>)
        ELSE afterCreate(CreateAlertRule(c, AlertRuleFromPlan(data), nets[1]))

\* Read(ctx, req, resp) on the prior state data
AlertRuleResource_Read(c, data, nets) ==
    LET id == Atoi(ValueText(data.ID))
    IN  IF ~id.ok
        THEN Handled(<<>>, <<>>, NoErr,
                     InvalidID("Invalid alert rule ID", "Failed to parse alert rule ID: "),
                     <<data>>)
        ELSE
        LET rule == GetAlertRule(c, id.v, nets[1])
        IN  IF rule.err # NoErr
            THEN Handled(rule.sent, <<>>, rule.err,
                         <<Diag("Failed to read alert rule", rule.err)>>, <<data>>)
            ELSE Handled(rule.sent, rule.out, NoErr, NoDiags,
                         <<AlertRule_apiToTerraformModel(rule.out[1], data)>>)

\* Update(ctx, req, resp) on the plan data, the prior state being state
AlertRuleResource_Update(c, data, state, nets) ==
    IF EventSettingsAs(data) # NoDiags
    THEN Handled(<<>>, <<>>, NoErr, EventSettingsAs(data), <<state>>)
    ELSE
    LET id == Atoi(ValueText(data.ID))
    IN  IF ~id.ok
        THEN Handled(<<>>, <<>>, NoErr,
                     InvalidID("Invalid alert rule ID", "Failed to parse alert rule ID: "),
                     <<state>>)
        ELSE
        LET updated == UpdateAlertRule(c, id.v, AlertRuleFromPlan(data), nets[1])
        IN  IF updated.err # NoErr
            THEN Handled(updated.sent, <<>>, updated.err,
                         <<Diag("Failed to update alert rule", updated.err)>>, <<state>>)
            ELSE Handled(updated.sent, updated.out, NoErr, NoDiags,
                         <<AlertRule_apiToTerraformModel(updated.out[1], data)>>)

\* Delete(ctx, req, resp) on the prior state data; the framework removes the state
\* when Delete returns without an error diagnostic
AlertRuleResource_Delete(c, data, nets) ==
    LET id == Atoi(ValueText(data.ID))
    IN  IF ~id.ok
        THEN Handled(<<>>, <<>>, NoErr,
                     InvalidID("Invalid alert rule ID", "Failed to parse alert rule ID: "),
                     <<data>>)
        ELSE
        LET r == DeleteAlertRule(c, id.v, nets[1])
        IN  IF r.err # NoErr
            THEN Handled(r.sent, <<>>, r.err,
                         <<Diag("Failed to delete alert rule", r.err)>>, <<data>>)
            ELSE Handled(r.sent, <<>>, NoErr, NoDiags, <<>>)

\* ImportState(ctx, req, resp) on the id text the user gives
AlertRuleResource_ImportState(id) ==
    ImportStatePassthroughID(NullAlertRuleModel, id)

(***************************************************************************)
(* The status page resource.                                               *)
(***************************************************************************)
\* StatusPageResourceModel with every attribute null
NullStatusPageModel ==
    [ID |-> TfNull, Name |-> TfNull, Title |-> TfNull, Description |-> TfNull,
     SearchEngineIndexed |-> TfNull, WebsiteURL |-> TfNull, Subdomain |-> TfNull,
     Domain |-> TfNull, Timeframe |-> TfNull, Colors |-> TfNull, Components |-> TfNull,
     Logo |-> TfNull, Favicon |-> TfNull, CreatedAt |-> TfNull, UpdatedAt |-> TfNull]

ZeroStatusPageColorsModel ==
    [Operational |-> TfNull, DegradedPerformance |-> TfNull, PartialOutage |-> TfNull,
     MajorOutage |-> TfNull, Maintenance |-> TfNull, Empty |-> TfNull]

ZeroStatusPage == UnmarshalStatusPage(JNull).v

\* terraformToAPIModel of the status page: [page, diags]
StatusPage_terraformToAPIModel_noDomain(data) ==
    LET colors     == ObjectAs(data.Colors, ZeroStatusPageColorsModel)
        components == ElementsAs(data.Components)
        page ==
          [ZeroStatusPage EXCEPT
             !.Name                = ValueString(data.Name),
             !.Title               = ValueString(data.Title),
             !.Description         = ValueString(data.Description),
             !.SearchEngineIndexed = ValueBool(data.SearchEngineIndexed),
             !.WebsiteURL          = ValueString(data.WebsiteURL),
             !.Subdomain = IF ~IsNull(data.Subdomain)
                           THEN stringPtr(ValueString(data.Subdomain)) ELSE <<>>,
             !.Timeframe = IF ~IsNull(data.Timeframe)
                           THEN <<ValueInt64(data.Timeframe)>> ELSE <<>>,
             !.Logo      = IF ~IsNull(data.Logo)
                           THEN stringPtr(ValueString(data.Logo)) ELSE <<>>,
             !.Favicon   = IF ~IsNull(data.Favicon)
                           THEN stringPtr(ValueString(data.Favicon)) ELSE <<>>,
             !.Colors    =
                 [Operational         |-> ValueString(colors.v.Operational),
                  DegradedPerformance |-> ValueString(colors.v.DegradedPerformance),
                  PartialOutage       |-> ValueString(colors.v.PartialOutage),
                  MajorOutage         |-> ValueString(colors.v.MajorOutage),
                  Maintenance         |-> ValueString(colors.v.Maintenance),
                  Empty               |-> ValueString(colors.v.Empty)],
             !.Components =
                 [i \in 1..Len(components.v) |->
                    [ComponentableType |-> ValueString(components.v[i].o.ComponentableType),
                     ComponentableID   |-> ValueInt64(components.v[i].o.ComponentableID)]]]
    IN  [page |-> <<page>>, diags |-> colors.diags \o components.diags]
StatusPage_terraformToAPIModel(data) ==
    LET colors     == ObjectAs(data.Colors, ZeroStatusPageColorsModel)
        components == ElementsAs(data.Components)
        page ==
          [ZeroStatusPage EXCEPT
             !.Name                = ValueString(data.Name),
             !.Title               = ValueString(data.Title),
             !.Description         = ValueString(data.Description),
             !.SearchEngineIndexed = ValueBool(data.SearchEngineIndexed),
             !.WebsiteURL          = ValueString(data.WebsiteURL),
             !.Subdomain = IF ~IsNull(data.Subdomain)
                           THEN stringPtr(ValueString(data.Subdomain)) ELSE <<>>,
             !.Domain    = IF ~IsNull(data.Domain)
                           THEN stringPtr(ValueString(data.Domain)) ELSE <<>>,
             !.Timeframe = IF ~IsNull(data.Timeframe)
                           THEN <<ValueInt64(data.Timeframe)>> ELSE <<>>,
             !.Logo      = IF ~IsNull(data.Logo)
                           THEN stringPtr(ValueString(data.Logo)) ELSE <<>>,
             !.Favicon   = IF ~IsNull(data.Favicon)
                           THEN stringPtr(ValueString(data.Favicon)) ELSE <<>>,
             !.Colors    =
                 [Operational         |-> ValueString(colors.v.Operational),
                  DegradedPerformance |-> ValueString(colors.v.DegradedPerformance),
                  PartialOutage       |-> ValueString(colors.v.PartialOutage),
                  MajorOutage         |-> ValueString(colors.v.MajorOutage),
                  Maintenance         |-> ValueString(colors.v.Maintenance),
                  Empty               |-> ValueString(colors.v.Empty)],
             !.Components =
                 [i \in 1..Len(components.v) |->
                    [ComponentableType |-> ValueString(components.v[i].o.ComponentableType),
                     ComponentableID   |-> ValueInt64(components.v[i].o.ComponentableID)]]]
    IN  [page |-> <<page>>, diags |-> colors.diags \o components.diags]

\* apiToTerraformModel of the status page: the model after the entity was written over it
StatusPage_apiToTerraformModel(page, data) ==
    [data EXCEPT
       !.ID          = IF page.ID # <<>> THEN TfText(Itoa(page.ID[1])) ELSE @,
       !.Name        = TfString(page.Name),
       !.Title       = TfString(page.Title),
       !.Description = TfString(page.Description),
       !.SearchEngineIndexed = TfBool(page.SearchEngineIndexed),
       !.WebsiteURL  = TfString(page.WebsiteURL),
       !.Subdomain   = StringPointerValue(page.Subdomain),
       !.Domain      = StringPointerValue(page.Domain),
       !.Timeframe   = IF page.Timeframe # <<>> THEN TfInt64(page.Timeframe[1]) ELSE TfNull,
       !.Logo        = StringPointerValue(page.Logo),
       !.Favicon     = StringPointerValue(page.Favicon),
       !.CreatedAt   = IF page.CreatedAt # <<>> THEN TfString(page.CreatedAt[1]) ELSE @,
       !.UpdatedAt   = IF page.UpdatedAt # <<>> THEN TfString(page.UpdatedAt[1]) ELSE @,
       !.Colors      =
           TfObject([Operational         |-> TfString(page.Colors.Operational),
                     DegradedPerformance |-> TfString(page.Colors.DegradedPerformance),
                     PartialOutage       |-> TfString(page.Colors.PartialOutage),
                     MajorOutage         |-> TfString(page.Colors.MajorOutage),
                     Maintenance         |-> TfString(page.Colors.Maintenance),
                     Empty               |-> TfString(page.Colors.Empty)]),
       !.Components  =
           TfList([i \in 1..Len(page.Components) |->
                     TfObject([ComponentableType |-> TfString(page.Components[i].ComponentableType),
                               ComponentableID   |-> TfInt64(page.Components[i].ComponentableID)])])]

\* Create(ctx, req, resp) on the plan data, no prior state
StatusPageResource_Create_fromPost(c, data, nets) ==
    LET conv    == StatusPage_terraformToAPIModel(data)
        created == CreateStatusPage(c, conv.page[1], nets[1])
    IN  IF HasError(conv.diags)
        THEN Handled(<<>>, <<>>, NoErr, conv.diags, <<>>)
        ELSE IF created.err # NoErr
        THEN Handled(created.sent, <<>>, created.err,
                     <<Diag("Failed to create status page", created.err)>>, <<>>)
        ELSE Handled(created.sent, created.out, NoErr, NoDiags,
                     <<StatusPage_apiToTerraformModel(created.out[1], data)>>)
StatusPageResource_Create(c, data, nets) ==
    LET afterReadBack(created, fullPage) ==
            IF fullPage.err # NoErr
            THEN Handled(created.sent \o fullPage.sent, <<>>, fullPage.err,
                         <<Diag("Failed to read created status page", fullPage.err)>>, <<>>)
            ELSE Handled(created.sent \o fullPage.sent, fullPage.out, NoErr, NoDiags,
                         <<StatusPage_apiToTerraformModel(fullPage.out[1], data)>>)
        afterCreate(created) ==
            IF created.err # NoErr
            THEN Handled(created.sent, <<>>, created.err,
                         <<Diag("Failed to create status page", created.err)>>, <<>>)
            ELSE IF created.out[1].ID = <<>>
            THEN Handled(created.sent, created.out, NoErr,
                         <<Diag("Failed to create status page",
                                <<PLit("API did not return a status page ID")>>)>>, <<>>)
            ELSE afterReadBack(created, GetStatusPage(c, created.out[1].ID[1], nets[2]))
        afterConversion(conv) ==
            IF HasError(conv.diags)
            THEN Handled(<<>>, <<>>, NoErr, conv.diags, <<>>)
            ELSE afterCreate(CreateStatusPage(c, conv.page[1], nets[1]))
    IN  afterConversion(StatusPage_terraformToAPIModel(data))

\* Read(ctx, req, resp) on the prior state data
StatusPageResource_Read(c, data, nets) ==
    LET id == Atoi(ValueText(data.ID))
    IN  IF ~id.ok
        THEN Handled(<<>>, <<>>, NoErr,
                     InvalidID("Invalid status page ID", "Failed to parse status page ID: "),
                     <<data>>)
        ELSE
        LET page == GetStatusPage(c, id.v, nets[1])
        IN  IF page.err # NoErr
            THEN Handled(page.sent, <<>>, page.err,
                         <<Diag("Failed to read status page", page.err)>>, <<data>>)
            ELSE Handled(page.sent, page.out, NoErr, NoDiags,
                         <<StatusPage_apiToTerraformModel(page.out[1], data)>>)

\* Update(ctx, req, resp) on the plan data, the prior state being state
StatusPageResource_Update(c, data, state, nets) ==
    LET conv == StatusPage_terraformToAPIModel(data)
        id   == Atoi(ValueText(data.ID))
    IN  IF HasError(conv.diags)
        THEN Handled(<<>>, <<>>, NoErr, conv.diags, <<state>>)
        ELSE IF ~id.ok
        THEN Handled(<<>>, <<>>, NoErr,
                     InvalidID("Invalid status page ID", "Failed to parse status page ID: "),
                     <<state>>)
        ELSE
        LET updated == UpdateStatusPage(c, id.v, conv.page[1], nets[1])
        IN  IF updated.err # NoErr
            THEN Handled(updated.sent, <<>>, updated.err,
                         <<Diag("Failed to update status page", updated.err)>>, <<state>>)
            ELSE Handled(updated.sent, updated.out, NoErr, NoDiags,
                         <<StatusPage_apiToTerraformModel(updated.out[1], data)>>)

\* Delete(ctx, req, resp) on the prior state data
StatusPageResource_Delete_swallow(c, data, nets) ==
    LET id == Atoi(ValueText(data.ID))
    IN  IF ~id.ok
        THEN Handled(<<>>, <<>>, NoErr,
                     InvalidID("Invalid status page ID", "Failed to parse status page ID: "),
                     <<data>>)
        ELSE
        LET r == DeleteStatusPage(c, id.v, nets[1])
        IN  Handled(r.sent, <<>>, r.err, NoDiags, <<>>)
StatusPageResource_Delete(c, data, nets) ==
    LET id == Atoi(ValueText(data.ID))
    IN  IF ~id.ok
        THEN Handled(<<>>, <<>>, NoErr,
                     InvalidID("Invalid status page ID", "Failed to parse status page ID: "),
                     <<data>>)
        ELSE
        LET r == DeleteStatusPage(c, id.v, nets[1])
        IN  IF r.err # NoErr
            THEN Handled(r.sent, <<>>, r.err,
                         <<Diag("Failed to delete status page", r.err)>>, <<data>>)
            ELSE Handled(r.sent, <<>>, NoErr, NoDiags, <<>>)

\* ImportState(ctx, req, resp) on the id text the user gives
StatusPageResource_ImportState(id) ==
    ImportStatePassthroughID(NullStatusPageModel, id)

(***************************************************************************)
(* The provider: the uptime monitor resource.                              *)
(***************************************************************************)
NullUptimeMonitorModel ==
    [ID |-> TfNull, Name |-> TfNull, Protocol |-> TfNull, HTTPRequest |-> TfNull,
     TCPRequest |-> TfNull, Interval |-> TfNull, Timeout |-> TfNull,
     IncidentConfirmations |-> TfNull, RecoveryConfirmations |-> TfNull,
     Regions |-> TfNull, SuccessAssertions |-> TfNull, Paused |-> TfNull,
     CreatedAt |-> TfNull, UpdatedAt |-> TfNull]

ZeroHTTPRequestModel ==
    [Method |-> TfNull, URL |-> TfNull, TLSSkipVerify |-> TfNull, Body |-> TfNull,
     FollowRedirects |-> TfNull, UserAgentSecret |-> TfNull, Headers |-> TfNull]

ZeroTCPRequestModel ==
    [Host |-> TfNull, Port |-> TfNull, Connection |-> TfNull, TLSSkipVerify |-> TfNull]

ZeroMonitor == UnmarshalMonitor(JNull).v

\* the headers of an http_request block, when the list is not null
HeadersFromPlan_reversed(httpReq) ==
    LET headers == ElementsAs(httpReq.Headers)
    IN  [v |-> [i \in 1..Len(headers.v) |->
                  [Name  |-> ValueString(headers.v[Len(headers.v) + 1 - i].o.Name),
                   Value |-> ValueString(headers.v[Len(headers.v) + 1 - i].o.Value)]],
         diags |-> headers.diags]
HeadersFromPlan(httpReq) ==
    LET headers == ElementsAs(httpReq.Headers)
    IN  [v |-> [i \in 1..Len(headers.v) |->
                  [Name  |-> ValueString(headers.v[i].o.Name),
                   Value |-> ValueString(headers.v[i].o.Value)]],
         diags |-> headers.diags]

\* the request descriptor of protocol "http"
HTTPRequestFromPlan_bodyAlways(httpReq) ==
    [ZeroMonitorRequest EXCEPT
       !.Method          = stringPtr(ValueString(httpReq.Method)),
       !.URL             = stringPtr(ValueString(httpReq.URL)),
       !.TLSSkipVerify   = boolPtr(ValueBool(httpReq.TLSSkipVerify)),
       !.FollowRedirects = boolPtr(ValueBool(httpReq.FollowRedirects)),
       !.Body            = stringPtr(ValueString(httpReq.Body)),
       !.UserAgentSecret = IF ~IsNull(httpReq.UserAgentSecret)
                           THEN stringPtr(ValueString(httpReq.UserAgentSecret)) ELSE <<>>,
       !.Headers         = IF ~IsNull(httpReq.Headers)
                           THEN HeadersFromPlan(httpReq).v ELSE <<>>]
HTTPRequestFromPlan(httpReq) ==
    [ZeroMonitorRequest EXCEPT
       !.Method          = stringPtr(ValueString(httpReq.Method)),
       !.URL             = stringPtr(ValueString(httpReq.URL)),
       !.TLSSkipVerify   = boolPtr(ValueBool(httpReq.TLSSkipVerify)),
       !.FollowRedirects = boolPtr(ValueBool(httpReq.FollowRedirects)),
       !.Body            = IF ~IsNull(httpReq.Body)
                           THEN stringPtr(ValueString(httpReq.Body)) ELSE <<>>,
       !.UserAgentSecret = IF ~IsNull(httpReq.UserAgentSecret)
                           THEN stringPtr(ValueString(httpReq.UserAgentSecret)) ELSE <<>>,
       !.Headers         = IF ~IsNull(httpReq.Headers)
                           THEN HeadersFromPlan(httpReq).v ELSE <<>>]

\* the request descriptor of protocol "tcp"
TCPRequestFromPlan_withMethod(tcpReq) ==
    [ZeroMonitorRequest EXCEPT
       !.Method        = stringPtr("GET"),
       !.Host          = stringPtr(ValueString(tcpReq.Host)),
       !.Port          = stringPtr(ValueString(tcpReq.Port)),
       !.Connection    = stringPtr(ValueString(tcpReq.Connection)),
       !.TLSSkipVerify = boolPtr(ValueBool(tcpReq.TLSSkipVerify))]
TCPRequestFromPlan(tcpReq) ==
    [ZeroMonitorRequest EXCEPT
       !.Host          = stringPtr(ValueString(tcpReq.Host)),
       !.Port          = stringPtr(ValueString(tcpReq.Port)),
       !.Connection    = stringPtr(ValueString(tcpReq.Connection)),
       !.TLSSkipVerify = boolPtr(ValueBool(tcpReq.TLSSkipVerify))]

\* one success assertion: the optional members only when they are not null
SuccessAssertionFromPlan(a) ==
    [Type     |-> ValueString(a.Type),
     Operator |-> IF ~IsNull(a.Operator) THEN stringPtr(ValueString(a.Operator)) ELSE <<>>,
     Value    |-> IF ~IsNull(a.Value) THEN stringPtr(ValueString(a.Value)) ELSE <<>>,
     Property |-> IF ~IsNull(a.Property) THEN stringPtr(ValueString(a.Property)) ELSE <<>>]

\* terraformToAPIModel of the monitor: [monitor, diags], monitor <<>> for nil
UptimeMonitor_terraformToAPIModel(data) ==
    LET regions    == ElementsAs(data.Regions)
        protocol   == ValueString(data.Protocol)
        httpReq    == ObjectAs(data.HTTPRequest, ZeroHTTPRequestModel)
        tcpReq     == ObjectAs(data.TCPRequest, ZeroTCPRequestModel)
        assertions == ElementsAs(data.SuccessAssertions)
        monitor    ==
          [ZeroMonitor EXCEPT
             !.Name                  = ValueString(data.Name),
             !.Protocol              = protocol,
             !.Interval              = ValueInt64(data.Interval),
             !.Timeout               = ValueInt64(data.Timeout),
             !.IncidentConfirmations = ValueInt64(data.IncidentConfirmations),
             !.RecoveryConfirmations = ValueInt64(data.RecoveryConfirmations),
             !.Regions               = [i \in 1..Len(regions.v) |-> ValueString(regions.v[i])],
             !.Request               =
                 IF protocol = "http" THEN HTTPRequestFromPlan(httpReq.v)
                 ELSE IF protocol = "tcp" THEN TCPRequestFromPlan(tcpReq.v)
                 ELSE ZeroMonitorRequest,
             !.SuccessAssertions     =
                 IF ~IsNull(data.SuccessAssertions)
                 THEN [i \in 1..Len(assertions.v) |-> SuccessAssertionFromPlan(assertions.v[i].o)]
                 ELSE <<>>]
        requestDiags ==
          IF protocol = "http"
          THEN httpReq.diags \o (IF ~IsNull(httpReq.v.Headers)
                                 THEN HeadersFromPlan(httpReq.v).diags ELSE NoDiags)
          ELSE IF protocol = "tcp" THEN tcpReq.diags
          ELSE NoDiags
    IN  IF protocol = "http" /\ IsNull(data.HTTPRequest)
        THEN [monitor |-> <<>>,
              diags   |-> regions.diags \o
                 <<Diag("Invalid Configuration",
                        <<PLit("http_request is required when protocol is 'http'")>>)>>]
        ELSE IF protocol = "tcp" /\ IsNull(data.TCPRequest)
        THEN [monitor |-> <<>>,
              diags   |-> regions.diags \o
                 <<Diag("Invalid Configuration",
                        <<PLit("tcp_request is required when protocol is 'tcp'")>>)>>]
        ELSE [monitor |-> <<monitor>>,
              diags   |-> regions.diags \o requestDiags
                          \o (IF ~IsNull(data.SuccessAssertions)
                              THEN assertions.diags ELSE NoDiags)]

\* the http_request block of an entity of protocol "http"
HTTPRequestObject(request) ==
    TfObject([Method          |-> StringPointerValue(request.Method),
              URL             |-> StringPointerValue(request.URL),
              TLSSkipVerify   |-> BoolPointerValue(request.TLSSkipVerify),
              FollowRedirects |-> BoolPointerValue(request.FollowRedirects),
              Body            |-> StringPointerValue(request.Body),
              UserAgentSecret |-> StringPointerValue(request.UserAgentSecret),
              Headers         |->
                 IF Len(request.Headers) > 0
                 THEN TfList([i \in 1..Len(request.Headers) |->
                                TfObject([Name  |-> TfString(request.Headers[i].Name),
                                          Value |-> TfString(request.Headers[i].Value)])])
                 ELSE TfNull])

\* the tcp_request block of an entity of protocol "tcp"
TCPRequestObject(request) ==
    TfObject([Host          |-> StringPointerValue(request.Host),
              Port          |-> StringPointerValue(request.Port),
              Connection    |-> StringPointerValue(request.Connection),
              TLSSkipVerify |-> BoolPointerValue(request.TLSSkipVerify)])

SuccessAssertionObject(a) ==
    TfObject([Type     |-> TfString(a.Type),
              Operator |-> StringPointerValue(a.Operator),
              Value    |-> StringPointerValue(a.Value),
              Property |-> StringPointerValue(a.Property)])

\* apiToTerraformModel of the monitor: the model after the entity was written over it
UptimeMonitor_apiToTerraformModel(monitor, data) ==
    [data EXCEPT
       !.ID        = IF monitor.ID # <<>> THEN TfText(Itoa(monitor.ID[1])) ELSE @,
       !.Name      = TfString(monitor.Name),
       !.Protocol  = TfString(monitor.Protocol),
       !.Interval  = TfInt64(monitor.Interval),
       !.Timeout   = TfInt64(monitor.Timeout),
       !.IncidentConfirmations = TfInt64(monitor.IncidentConfirmations),
       !.RecoveryConfirmations = TfInt64(monitor.RecoveryConfirmations),
       !.CreatedAt = IF monitor.CreatedAt # <<>> THEN TfString(monitor.CreatedAt[1]) ELSE @,
       !.UpdatedAt = IF monitor.UpdatedAt # <<>> THEN TfString(monitor.UpdatedAt[1]) ELSE @,
       !.Paused    = IF monitor.Paused # <<>> THEN TfBool(monitor.Paused[1]) ELSE TfBool(FALSE),
       !.Regions   = TfList([i \in 1..Len(monitor.Regions) |-> TfString(monitor.Regions[i])]),
       !.HTTPRequest = IF monitor.Protocol = "http" THEN HTTPRequestObject(monitor.Request)
                       ELSE IF monitor.Protocol = "tcp" THEN TfNull
                       ELSE @,
       !.TCPRequest  = IF monitor.Protocol = "http" THEN TfNull
                       ELSE IF monitor.Protocol = "tcp" THEN TCPRequestObject(monitor.Request)
                       ELSE @,
       !.SuccessAssertions =
           IF Len(monitor.SuccessAssertions) > 0
           THEN TfList([i \in 1..Len(monitor.SuccessAssertions) |->
                          SuccessAssertionObject(monitor.SuccessAssertions[i])])
           ELSE TfNull]

\* Create(ctx, req, resp) on the plan data, no prior state
UptimeMonitorResource_Create_ignoreDiags(c, data, nets) ==
    LET conv == UptimeMonitor_terraformToAPIModel(data)
        sentMonitor == IF conv.monitor = <<>> THEN ZeroMonitor ELSE conv.monitor[1]
        created == CreateMonitor(c, sentMonitor, nets[1])
    IN  IF created.err # NoErr
        THEN Handled(created.sent, <<>>, created.err,
                     <<Diag("Failed to create monitor", created.err)>>, <<>>)
        ELSE Handled(created.sent, created.out, NoErr, conv.diags, <<>>)
UptimeMonitorResource_Create(c, data, nets) ==
    LET pausing == ~IsNull(data.Paused) /\ ValueBool(data.Paused)
        afterReadBack(sent2, fullMonitor) ==
            IF fullMonitor.err # NoErr
            THEN Handled(sent2 \o fullMonitor.sent, <<>>, fullMonitor.err,
                         <<Diag("Failed to read created monitor", fullMonitor.err)>>, <<>>)
            ELSE Handled(sent2 \o fullMonitor.sent, fullMonitor.out, NoErr, NoDiags,
                         <<UptimeMonitor_apiToTerraformModel(fullMonitor.out[1], data)>>)
        afterPause(created, id, paused) ==
            IF pausing /\ paused.err # NoErr
            THEN Handled(created.sent \o paused.sent, <<>>, paused.err,
                         <<Diag("Failed to pause monitor", paused.err)>>, <<>>)
            ELSE afterReadBack(created.sent \o (IF pausing THEN paused.sent ELSE <<>>),
                               GetMonitor(c, id, nets[3]))
        afterCreate(created) ==
            IF created.err # NoErr
            THEN Handled(created.sent, <<>>, created.err,
                         <<Diag("Failed to create monitor", created.err)>>, <<>>)
            ELSE IF created.out[1].ID = <<>>
            THEN Handled(created.sent, created.out, NoErr,
                         <<Diag("Failed to create monitor",
                                <<PLit("API did not return a monitor ID")>>)>>, <<>>)
            ELSE afterPause(created, created.out[1].ID[1],
                            PauseMonitor(c, created.out[1].ID[1], nets[2]))
        afterConversion(conv) ==
            IF HasError(conv.diags)
            THEN Handled(<<>>, <<>>, NoErr, conv.diags, <<>>)
            ELSE afterCreate(CreateMonitor(c, conv.monitor[1], nets[1]))
    IN  afterConversion(UptimeMonitor_terraformToAPIModel(data))

\* Read(ctx, req, resp) on the prior state data
UptimeMonitorResource_Read_removes(c, data, nets) ==
    LET id == Atoi(ValueText(data.ID))
    IN  IF ~id.ok
        THEN Handled(<<>>, <<>>, NoErr,
                     InvalidID("Invalid monitor ID", "Failed to parse monitor ID: "),
                     <<data>>)
        ELSE
        LET monitor == GetMonitor(c, id.v, nets[1])
        IN  IF monitor.err # NoErr
            THEN Handled(monitor.sent, <<>>, monitor.err,
                         <<Diag("Failed to read monitor", monitor.err)>>, <<>>)
            ELSE Handled(monitor.sent, monitor.out, NoErr, NoDiags,
                         <<UptimeMonitor_apiToTerraformModel(monitor.out[1], data)>>)
UptimeMonitorResource_Read(c, data, nets) ==
    LET id == Atoi(ValueText(data.ID))
    IN  IF ~id.ok
        THEN Handled(<<>>, <<>>, NoErr,
                     InvalidID("Invalid monitor ID", "Failed to parse monitor ID: "),
                     <<data>>)
        ELSE
        LET monitor == GetMonitor(c, id.v, nets[1])
        IN  IF monitor.err # NoErr
            THEN Handled(monitor.sent, <<>>, monitor.err,
                         <<Diag("Failed to read monitor", monitor.err)>>, <<data>>)
            ELSE Handled(monitor.sent, monitor.out, NoErr, NoDiags,
                         <<UptimeMonitor_apiToTerraformModel(monitor.out[1], data)>>)

\* Update(ctx, req, resp) on the plan data, the prior state being state
UptimeMonitorResource_Update_otherID(c, data, state, nets) ==
    LET conv    == UptimeMonitor_terraformToAPIModel(data)
        updated == UpdateMonitor(c, 7, conv.monitor[1], nets[1])
    IN  IF HasError(conv.diags)
        THEN Handled(<<>>, <<>>, NoErr, conv.diags, <<state>>)
        ELSE IF updated.err # NoErr
        THEN Handled(updated.sent, <<>>, updated.err,
                     <<Diag("Failed to update monitor", updated.err)>>, <<state>>)
        ELSE Handled(updated.sent, updated.out, NoErr, NoDiags,
                     <<UptimeMonitor_apiToTerraformModel(updated.out[1], data)>>)
UptimeMonitorResource_Update(c, data, state, nets) ==
    LET statePaused == ~IsNull(state.Paused) /\ ValueBool(state.Paused)
        planPaused  == ~IsNull(data.Paused) /\ ValueBool(data.Paused)
        afterPause(updated, paused) ==
            IF paused.err # NoErr
            THEN Handled(updated.sent \o paused.sent, <<>>, paused.err,
                         <<Diag("Failed to pause monitor", paused.err)>>, <<state>>)
            ELSE Handled(updated.sent \o paused.sent, updated.out, NoErr, NoDiags,
                         <<UptimeMonitor_apiToTerraformModel(
                             [updated.out[1] EXCEPT !.Paused = <<TRUE>>], data)>>)
        afterResume(updated, resumed) ==
            IF resumed.err # NoErr
            THEN Handled(updated.sent \o resumed.sent, <<>>, resumed.err,
                         <<Diag("Failed to resume monitor", resumed.err)>>, <<state>>)
            ELSE Handled(updated.sent \o resumed.sent, updated.out, NoErr, NoDiags,
                         <<UptimeMonitor_apiToTerraformModel(
                             [updated.out[1] EXCEPT !.Paused = <<FALSE>>], data)>>)
        afterUpdate(id, updated) ==
            IF updated.err # NoErr
            THEN Handled(updated.sent, <<>>, updated.err,
                         <<Diag("Failed to update monitor", updated.err)>>, <<state>>)
            ELSE IF planPaused /\ ~statePaused
            THEN afterPause(updated, PauseMonitor(c, id, nets[2]))
            ELSE IF ~planPaused /\ statePaused
            THEN afterResume(updated, ResumeMonitor(c, id, nets[2]))
            ELSE Handled(updated.sent, updated.out, NoErr, NoDiags,
                         <<UptimeMonitor_apiToTerraformModel(updated.out[1], data)>>)
        afterConversion(conv, id) ==
            IF HasError(conv.diags)
            THEN Handled(<<>>, <<>>, NoErr, conv.diags, <<state>>)
            ELSE IF ~id.ok
            THEN Handled(<<>>, <<>>, NoErr,
                         InvalidID("Invalid monitor ID", "Failed to parse monitor ID: "),
                         <<state>>)
            ELSE afterUpdate(id.v, UpdateMonitor(c, id.v, conv.monitor[1], nets[1]))
    IN  afterConversion(UptimeMonitor_terraformToAPIModel(data), Atoi(ValueText(data.ID)))

\* Delete(ctx, req, resp) on the prior state data
UptimeMonitorResource_Delete(c, data, nets) ==
    LET id == Atoi(ValueText(data.ID))
    IN  IF ~id.ok
        THEN Handled(<<>>, <<>>, NoErr,
                     InvalidID("Invalid monitor ID", "Failed to parse monitor ID: "),
                     <<data>>)
        ELSE
        LET r == DeleteMonitor(c, id.v, nets[1])
        IN  IF r.err # NoErr
            THEN Handled(r.sent, <<>>, r.err,
                         <<Diag("Failed to delete monitor", r.err)>>, <<data>>)
            ELSE Handled(r.sent, <<>>, NoErr, NoDiags, <<>>)

\* ImportState(ctx, req, resp) on the id text the user gives
UptimeMonitorResource_ImportState(id) ==
    ImportStatePassthroughID(NullUptimeMonitorModel, id)

(***************************************************************************)
(* The provider: the uptime incident data source.                          *)
(***************************************************************************)
NullUptimeIncidentModel ==
    [ID |-> TfNull, ProjectID |-> TfNull, Title |-> TfNull, Slug |-> TfNull,
     Impact |-> TfNull, State |-> TfNull, Description |-> TfNull,
     ExcludeFromDowntime |-> TfNull, Status |-> TfNull, IncidentAt |-> TfNull,
     RecoveryAt |-> TfNull, CreatedAt |-> TfNull, UpdatedAt |-> TfNull]

\* Read(ctx, req, resp) of the data source on the configuration data; state is what
\* an earlier Read wrote
UptimeIncidentDataSource_Read_unparsed(c, data, state, nets) ==
    LET incident == GetIncident(c, Atoi(ValueText(data.ID)).v, nets[1])
    IN  IF incident.err # NoErr
        THEN Handled(incident.sent, <<>>, incident.err,
                     <<Diag("Failed to read incident", incident.err)>>, state)
        ELSE Handled(incident.sent, incident.out, NoErr, NoDiags, state)
UptimeIncidentDataSource_Read(c, data, state, nets) ==
    LET id == Atoi(ValueText(data.ID))
    IN  IF ~id.ok
        THEN Handled(<<>>, <<>>, NoErr,
                     InvalidID("Invalid incident ID", "Failed to parse incident ID: "),
                     state)
        ELSE
        LET incident == GetIncident(c, id.v, nets[1])
            x        == incident.out[1]
        IN  IF incident.err # NoErr
            THEN Handled(incident.sent, <<>>, incident.err,
                         <<Diag("Failed to read incident", incident.err)>>, state)
            ELSE Handled(incident.sent, incident.out, NoErr, NoDiags,
                   <<[data EXCEPT
                        !.ID        = IF x.ID # <<>> THEN TfText(Itoa(x.ID[1])) ELSE @,
                        !.ProjectID = IF x.ProjectID # <<>> THEN TfInt64(x.ProjectID[1]) ELSE TfNull,
                        !.Title     = TfString(x.Title),
                        !.Slug      = TfString(x.Slug),
                        !.Impact    = TfString(x.Impact),
                        !.State     = TfString(x.State),
                        !.Description = TfString(x.Description),
                        !.ExcludeFromDowntime = TfBool(x.ExcludeFromDowntime),
                        !.Status    = TfString(x.Status),
                        !.IncidentAt = TfString(x.IncidentAt),
                        !.RecoveryAt = IF x.RecoveryAt # <<>> THEN TfString(x.RecoveryAt[1]) ELSE TfNull,
                        !.CreatedAt = IF x.CreatedAt # <<>> THEN TfString(x.CreatedAt[1]) ELSE @,
                        !.UpdatedAt = IF x.UpdatedAt # <<>> THEN TfString(x.UpdatedAt[1]) ELSE @]>>)

(***************************************************************************)
(* The provider in use: configuration, then any sequence of handler calls. *)
(***************************************************************************)
\* the configurations and environments of the provider
ConfigTokens == {TfNull, TfString(""), TfString("phare_tok_A")}
ConfigURLs   == {TfNull, TfString(""), TfString("http://localhost:8080"),
                 TfString(MalformedBaseURL)}
EnvTokens    == {"", "phare_tok_B"}
EnvURLs      == {"", "https://staging.phare.io"}

\* the plans of an alert rule: the configuration, with the computed attributes unknown
\* (Create) or, where UseStateForUnknown says so, taken from the prior state (Update)
AlertRulePlans(prior) ==
    {[ID |-> IF prior = <<>> THEN TfUnknown ELSE prior[1].ID,
      Event |-> TfString(e.Event), IntegrationID |-> TfInt64(e.IntegrationID),
      RateLimit |-> TfInt64(e.RateLimit),
      EventSettings |-> TfObject([type |-> TfString(e.EventSettings.Type)]),
      ProjectID |-> IF e.ProjectID = <<>> THEN TfNull ELSE TfInt64(e.ProjectID[1]),
      CreatedAt |-> IF prior = <<>> THEN TfUnknown ELSE prior[1].CreatedAt,
      UpdatedAt |-> TfUnknown] : e \in SampleAlertRules}

\* the id texts a user imports
ImportIDs == {Itoa(7), Itoa(42), <<"x", "7">>}

\* the request blocks and success assertions a configuration declares
HTTPRequestBlock(body, secret, headers) ==
    TfObject([Method |-> TfString("GET"), URL |-> TfString("https://example.com/health"),
              TLSSkipVerify |-> TfBool(FALSE), Body |-> body, FollowRedirects |-> TfBool(TRUE),
              UserAgentSecret |-> secret, Headers |-> headers])
TCPRequestBlock ==
    TfObject([Host |-> TfString("db.example.com"), Port |-> TfString("5432"),
              Connection |-> TfString("plain"), TLSSkipVerify |-> TfBool(FALSE)])
HeaderObject(i) ==
    TfObject([Name  |-> TfString(IF i % 2 = 1 THEN "X-Probe" ELSE "Accept"),
              Value |-> TfString(IF i % 2 = 1 THEN "1" ELSE "*/*")])
AssertionObject(i) ==
    TfObject([Type     |-> TfString(IF i % 2 = 1 THEN "status_code" ELSE "response_body"),
              Operator |-> IF i % 2 = 1 THEN TfString("in") ELSE TfNull,
              Value    |-> IF i % 2 = 1 THEN TfString("2xx") ELSE TfNull,
              Property |-> TfNull])

\* a monitor configuration, with the computed attributes unknown (Create) or, where
\* UseStateForUnknown says so, taken from the prior state (Update)
MonitorPlan(prior, protocol, httpReq, tcpReq, assertions, paused) ==
    [ID |-> IF prior = <<>> THEN TfUnknown ELSE prior[1].ID,
     Name |-> TfString("api"), Protocol |-> TfString(protocol),
     HTTPRequest |-> httpReq, TCPRequest |-> tcpReq,
     Interval |-> TfInt64(60), Timeout |-> TfInt64(5000),
     IncidentConfirmations |-> TfInt64(1), RecoveryConfirmations |-> TfInt64(2),
     Regions |-> TfList(<<TfString("na-usa-iad")>>),
     SuccessAssertions |-> assertions, Paused |-> paused,
     CreatedAt |-> IF prior = <<>> THEN TfUnknown ELSE prior[1].CreatedAt,
     UpdatedAt |-> TfUnknown]

\* the plans the handlers of the monitor are run on: paused declared or left to the
\* provider (unknown), and one configuration of protocol http without its block
MonitorPlans(prior) ==
    {MonitorPlan(prior, "http", HTTPRequestBlock(TfNull, TfNull, TfList(<<HeaderObject(1)>>)),
                 TfNull, TfList(<<AssertionObject(1)>>), TfBool(TRUE)),
     MonitorPlan(prior, "http", HTTPRequestBlock(TfString("ping"), TfString("s3cret"), TfNull),
                 TfNull, TfNull, TfUnknown),
     MonitorPlan(prior, "http", TfNull, TfNull, TfNull, TfUnknown),
     MonitorPlan(prior, "tcp", TfNull, TCPRequestBlock, TfNull, TfBool(FALSE))}

\* a status page configuration
StatusPagePlan(prior, domain, logo, favicon, components) ==
    [ID |-> IF prior = <<>> THEN TfUnknown ELSE prior[1].ID,
     Name |-> TfString("Test Status Page"), Title |-> TfString("Test Status"),
     Description |-> TfString("Status of our services"),
     SearchEngineIndexed |-> TfBool(FALSE), WebsiteURL |-> TfString("https://example.com"),
     Subdomain |-> TfString("status"), Domain |-> domain, Timeframe |-> TfInt64(90),
     Colors |-> TfObject([Operational |-> TfString("#16a34a"),
                          DegradedPerformance |-> TfString("#fbbf24"),
                          PartialOutage |-> TfString("#f59e0b"),
                          MajorOutage |-> TfString("#ef4444"),
                          Maintenance |-> TfString("#6366f1"),
                          Empty |-> TfString("#d3d3d3")]),
     Components |-> components, Logo |-> logo, Favicon |-> favicon,
     CreatedAt |-> IF prior = <<>> THEN TfUnknown ELSE prior[1].CreatedAt,
     UpdatedAt |-> TfUnknown]
ComponentObject(i) ==
    TfObject([ComponentableType |-> TfString("uptime/monitor"),
              ComponentableID   |-> TfInt64(IF i % 2 = 1 THEN 42 ELSE 7)])

StatusPagePlans(prior) ==
    {StatusPagePlan(prior, TfNull, TfNull, TfNull, TfList(<<ComponentObject(1)>>)),
     StatusPagePlan(prior, TfString("status.example.com"), TfString("logo.png"), TfNull,
                    TfList(<<>>))}

\* the configurations of the incident data source
IncidentConfigs == {[NullUptimeIncidentModel EXCEPT !.ID = TfText(id)] : id \in ImportIDs}

\* the outcomes of one exchange of a handler
HandlerStatuses == {200, 404}
HandlerBodies(kind, reqBody) ==
    {JInvalid("<html>502 Bad Gateway</html>"), JObj(NoFields),
     JObj("message" :> JStr("Not found"))}
    \cup {Bare(o) : o \in AnswerObjects(kind, reqBody)}
    \cup {Envelope(o) : o \in AnswerObjects(kind, reqBody)}
HandlerNets(kind, reqBody) ==
    {[fail |-> "do", cause |-> "context deadline exceeded", status |-> 0, body |-> JNull]}
    \cup {[fail |-> "", cause |-> "", status |-> s, body |-> b]
            : s \in HandlerStatuses, b \in HandlerBodies(kind, reqBody)}

\* the framework calls Configure
CallConfigure ==
    /\ last = Idle /\ client = <<>>
    /\ \E apiToken \in ConfigTokens, baseURL \in ConfigURLs,
          envToken \in EnvTokens, envURL \in EnvURLs :
        LET r == Configure(apiToken, baseURL, envToken, envURL)
        IN  /\ client' = r.client
            /\ last' = [op |-> "Configure",
                        in |-> [apiToken |-> apiToken, baseURL |-> baseURL,
                                envToken |-> envToken, envURL |-> envURL],
                        net |-> <<>>, sent |-> <<>>, out |-> r.client, err |-> NoErr,
                        diag |-> r.diag]
            /\ UNCHANGED tf

\* the framework ran the handler op of the resource kind on the plan and the prior
\* state, the exchanges went as nets say, and the handler left r
HandlerCalled(op, kind, plan, nets, r) ==
    /\ last' = [op |-> op, in |-> [plan |-> plan, state |-> tf[kind]], net |-> nets,
                sent |-> r.sent, out |-> r.out, err |-> r.err, diag |-> r.diag]
    /\ tf' = [tf EXCEPT ![kind] = r.state]
    /\ UNCHANGED client

CallAlertRuleCreate ==
    /\ last = Idle /\ client # <<>> /\ tf = NoState
    /\ \E data \in AlertRulePlans(<<>>) :
        \E net1 \in HandlerNets("alert", MarshalAlertRule(AlertRuleFromPlan(data))) :
          \E created \in {CreateAlertRule(client[1], AlertRuleFromPlan(data), net1)} :
            \E net2 \in IF created.err # NoErr \/ created.out[1].ID = <<>>
                         THEN {NoNet} ELSE HandlerNets("alert", NoBody) :
              \E nets \in {IF net2 = NoNet THEN <<net1>> ELSE <<net1, net2>>} :
                HandlerCalled("AlertRuleResource.Create", "alert", <<data>>, nets,
                              AlertRuleResource_Create(client[1], data, nets))

CallAlertRuleRead ==
    /\ last = Idle /\ client # <<>> /\ tf.alert # <<>>
    /\ \E net1 \in HandlerNets("alert", NoBody) :
          HandlerCalled("AlertRuleResource.Read", "alert", <<>>, <<net1>>,
                        AlertRuleResource_Read(client[1], tf.alert[1], <<net1>>))

CallAlertRuleUpdate ==
    /\ last = Idle /\ client # <<>> /\ tf.alert # <<>>
    /\ \E data \in AlertRulePlans(tf.alert) :
        \E net1 \in HandlerNets("alert", MarshalAlertRule(AlertRuleFromPlan(data))) :
          HandlerCalled("AlertRuleResource.Update", "alert", <<data>>, <<net1>>,
                        AlertRuleResource_Update(client[1], data, tf.alert[1], <<net1>>))

CallAlertRuleDelete ==
    /\ last = Idle /\ client # <<>> /\ tf.alert # <<>>
    /\ \E net1 \in HandlerNets("alert", NoBody) :
          HandlerCalled("AlertRuleResource.Delete", "alert", <<>>, <<net1>>,
                        AlertRuleResource_Delete(client[1], tf.alert[1], <<net1>>))

CallAlertRuleImportState ==
    /\ last = Idle /\ client # <<>> /\ tf = NoState
    /\ \E id \in ImportIDs :
          HandlerCalled("AlertRuleResource.ImportState", "alert", <<>>, <<>>,
                        Handled(<<>>, <<>>, NoErr, NoDiags,
                                <<AlertRuleResource_ImportState(id)>>))

CallStatusPageDelete ==
    /\ last = Idle /\ client # <<>> /\ tf.page # <<>>
    /\ \E net1 \in HandlerNets("page", NoBody) :
          HandlerCalled("StatusPageResource.Delete", "page", <<>>, <<net1>>,
                        StatusPageResource_Delete(client[1], tf.page[1], <<net1>>))

CallStatusPageImportState ==
    /\ last = Idle /\ client # <<>> /\ tf = NoState
    /\ \E id \in ImportIDs :
          HandlerCalled("StatusPageResource.ImportState", "page", <<>>, <<>>,
                        Handled(<<>>, <<>>, NoErr, NoDiags,
                                <<StatusPageResource_ImportState(id)>>))

CallStatusPageCreate ==
    /\ last = Idle /\ client # <<>> /\ tf = NoState
    /\ \E data \in StatusPagePlans(<<>>) :
        \E page \in {StatusPage_terraformToAPIModel(data).page[1]} :
          \E net1 \in HandlerNets("page", MarshalStatusPage(page)) :
            \E created \in {CreateStatusPage(client[1], page, net1)} :
              \E net2 \in IF created.err # NoErr \/ created.out[1].ID = <<>>
                           THEN {NoNet} ELSE HandlerNets("page", NoBody) :
                \E nets \in {IF net2 = NoNet THEN <<net1>> ELSE <<net1, net2>>} :
                  HandlerCalled("StatusPageResource.Create", "page", <<data>>, nets,
                                StatusPageResource_Create(client[1], data, nets))

CallStatusPageRead ==
    /\ last = Idle /\ client # <<>> /\ tf.page # <<>>
    /\ \E net1 \in HandlerNets("page", NoBody) :
          HandlerCalled("StatusPageResource.Read", "page", <<>>, <<net1>>,
                        StatusPageResource_Read(client[1], tf.page[1], <<net1>>))

CallStatusPageUpdate ==
    /\ last = Idle /\ client # <<>> /\ tf.page # <<>>
    /\ \E data \in StatusPagePlans(tf.page) :
        \E net1 \in HandlerNets("page",
                      MarshalStatusPage(StatusPage_terraformToAPIModel(data).page[1])) :
          HandlerCalled("StatusPageResource.Update", "page", <<data>>, <<net1>>,
                        StatusPageResource_Update(client[1], data, tf.page[1], <<net1>>))

\* the exchanges a monitor handler gets to are drawn one after the other: the second
\* and third only when the handler reaches them (NoNet stands for an exchange that
\* does not take place)
CallUptimeMonitorCreate ==
    /\ last = Idle /\ client # <<>> /\ tf = NoState
    /\ \E data \in MonitorPlans(<<>>) :
        \E conv \in {UptimeMonitor_terraformToAPIModel(data)} :
          \E net1 \in IF HasError(conv.diags) THEN {NoNet}
                       ELSE HandlerNets("monitor", MarshalMonitor(conv.monitor[1])) :
            \E reached \in {IF net1 = NoNet THEN FALSE
                             ELSE LET created == CreateMonitor(client[1], conv.monitor[1], net1)
                                  IN  created.err = NoErr /\ created.out[1].ID # <<>>} :
              \E pausing \in {reached /\ ~IsNull(data.Paused) /\ ValueBool(data.Paused)} :
                \E net2 \in IF pausing THEN HandlerNets("monitor", NoBody) ELSE {NoNet} :
                  \E net3 \in IF reached /\ (~pausing
                                    \/ PauseMonitor(client[1],
                                         CreateMonitor(client[1], conv.monitor[1],
                                                       net1).out[1].ID[1],
                                         net2).err = NoErr)
                               THEN HandlerNets("monitor", NoBody) ELSE {NoNet} :
                    \E nets \in {IF ~reached THEN <<net1>>
                                  ELSE IF net3 = NoNet THEN <<net1, net2>>
                                  ELSE <<net1, net2, net3>>} :
                      HandlerCalled("UptimeMonitorResource.Create", "monitor", <<data>>,
                                    nets,
                                    UptimeMonitorResource_Create(client[1], data, nets))

CallUptimeMonitorRead ==
    /\ last = Idle /\ client # <<>> /\ tf.monitor # <<>>
    /\ \E net1 \in HandlerNets("monitor", NoBody) :
          HandlerCalled("UptimeMonitorResource.Read", "monitor", <<>>, <<net1>>,
                        UptimeMonitorResource_Read(client[1], tf.monitor[1], <<net1>>))

CallUptimeMonitorUpdate ==
    /\ last = Idle /\ client # <<>> /\ tf.monitor # <<>>
    /\ \E data \in MonitorPlans(tf.monitor) :
        \E conv \in {UptimeMonitor_terraformToAPIModel(data)}, state \in {tf.monitor[1]} :
          \E id \in {Atoi(ValueText(data.ID))} :
            \E net1 \in IF HasError(conv.diags) \/ ~id.ok THEN {NoNet}
                         ELSE HandlerNets("monitor", MarshalMonitor(conv.monitor[1])) :
              \E toggles \in {/\ net1 # NoNet
                               /\ UpdateMonitor(client[1], id.v, conv.monitor[1],
                                                net1).err = NoErr
                               /\ (~IsNull(state.Paused) /\ ValueBool(state.Paused))
                                    # (~IsNull(data.Paused) /\ ValueBool(data.Paused))} :
                \E net2 \in IF toggles THEN HandlerNets("monitor", NoBody) ELSE {NoNet} :
                  \E nets \in {IF toggles THEN <<net1, net2>> ELSE <<net1>>} :
                    HandlerCalled("UptimeMonitorResource.Update", "monitor", <<data>>,
                                  nets,
                                  UptimeMonitorResource_Update(client[1], data, state,
                                                               nets))

CallUptimeMonitorDelete ==
    /\ last = Idle /\ client # <<>> /\ tf.monitor # <<>>
    /\ \E net1 \in HandlerNets("monitor", NoBody) :
          HandlerCalled("UptimeMonitorResource.Delete", "monitor", <<>>, <<net1>>,
                        UptimeMonitorResource_Delete(client[1], tf.monitor[1], <<net1>>))

CallUptimeMonitorImportState ==
    /\ last = Idle /\ client # <<>> /\ tf = NoState
    /\ \E id \in ImportIDs :
          HandlerCalled("UptimeMonitorResource.ImportState", "monitor", <<>>, <<>>,
                        Handled(<<>>, <<>>, NoErr, NoDiags,
                                <<UptimeMonitorResource_ImportState(id)>>))

\* the framework reads the incident data source on its configuration
CallUptimeIncidentRead ==
    /\ last = Idle /\ client # <<>>
    /\ tf.alert = <<>> /\ tf.page = <<>> /\ tf.monitor = <<>>
    /\ \E data \in IncidentConfigs :
        \E net1 \in HandlerNets("incident", NoBody) :
          HandlerCalled("UptimeIncidentDataSource.Read", "incident", <<data>>, <<net1>>,
                        UptimeIncidentDataSource_Read(client[1], data, tf.incident, <<net1>>))

\* the framework has taken the response of the handler
HandlerReturn ==
    /\ last # Idle
    /\ last' = Idle
    /\ UNCHANGED <<client, tf>>

NextProvider ==
    \/ HandlerReturn
    \/ CallConfigure
    \/ CallAlertRuleCreate
    \/ CallAlertRuleRead
    \/ CallAlertRuleUpdate
    \/ CallAlertRuleDelete
    \/ CallAlertRuleImportState
    \/ CallStatusPageCreate
    \/ CallStatusPageRead
    \/ CallStatusPageUpdate
    \/ CallStatusPageDelete
    \/ CallStatusPageImportState
    \/ CallUptimeMonitorCreate
    \/ CallUptimeMonitorRead
    \/ CallUptimeMonitorUpdate
    \/ CallUptimeMonitorDelete
    \/ CallUptimeMonitorImportState
    \/ CallUptimeIncidentRead

SpecProvider == Init /\ [][NextProvider]_vars

(***************************************************************************)
(* The conversions on their own: every declared model through               *)
(* terraformToAPIModel, through the round trip (the API echoing the entity *)
(* it was sent), and every answered entity through apiToTerraformModel     *)
(* over a prior model.                                                     *)
(***************************************************************************)
MaxElems == 2

\* the lists of 0..MaxElems elements a configuration declares, and no list at all
DeclaredLists(Elem(_)) ==
    {TfNull} \cup {TfList([i \in 1..n |-> Elem(i)]) : n \in 0..MaxElems}

\* the monitor models of a valid configuration: protocol http or tcp (the schema's
\* OneOf), every optional attribute declared or left null
DeclaredMonitors ==
    {MonitorPlan(<<>>, "http", HTTPRequestBlock(body, secret, headers), TfNull,
                 assertions, paused)
        : body \in {TfNull, TfString("ping")}, secret \in {TfNull, TfString("s3cret")},
          headers \in DeclaredLists(HeaderObject),
          assertions \in DeclaredLists(AssertionObject),
          paused \in {TfNull, TfBool(TRUE), TfBool(FALSE)}}
    \cup {MonitorPlan(<<>>, "tcp", TfNull, TCPRequestBlock, assertions, paused)
            : assertions \in DeclaredLists(AssertionObject),
              paused \in {TfNull, TfBool(TRUE), TfBool(FALSE)}}
    \cup {MonitorPlan(<<>>, "http", TfNull, tcpReq, TfNull, TfNull)
            : tcpReq \in {TfNull, TCPRequestBlock}}
    \cup {MonitorPlan(<<>>, "tcp", httpReq, TfNull, TfNull, TfNull)
            : httpReq \in {TfNull, HTTPRequestBlock(TfNull, TfNull, TfNull)}}
    \cup {MonitorPlan(<<>>, protocol, HTTPRequestBlock(TfNull, TfNull, TfNull),
                       TCPRequestBlock, TfNull, TfNull)
            : protocol \in {"http", "tcp"}}
    \cup {MonitorPlan(<<>>, "http",
                       TfObject([HTTPRequestBlock(TfNull, TfNull, TfNull).o EXCEPT
                                   !.TLSSkipVerify = TfBool(TRUE),
                                   !.FollowRedirects = TfBool(FALSE)]),
                       TfNull, TfNull, TfNull),
          MonitorPlan(<<>>, "tcp", TfNull,
                       TfObject([TCPRequestBlock.o EXCEPT !.TLSSkipVerify = TfBool(TRUE)]),
                       TfNull, TfNull)}
    \cup {[MonitorPlan(<<>>, "tcp", TfNull, TCPRequestBlock, TfNull, TfNull)
              EXCEPT !.Regions = TfList(<<TfString("na-usa-iad"), TfString("eu-deu-fra")>>)]}

\* the status page models of a valid configuration
DeclaredStatusPages ==
    {StatusPagePlan(<<>>, domain, logo, favicon, components)
        : domain \in {TfNull, TfString(""), TfString("status.example.com")},
          logo \in {TfNull, TfString("logo.png")},
          favicon \in {TfNull, TfString("favicon.ico")},
          components \in DeclaredLists(ComponentObject) \ {TfNull}}

\* the API echoing an entity: what the client decodes from the entity's own JSON
EchoMonitor(m)    == UnmarshalMonitor(MarshalMonitor(m)).v
EchoStatusPage(p) == UnmarshalStatusPage(MarshalStatusPage(p)).v

\* the entities the client decodes from an answer: stored samples, the same without
\* their optional members, and the entity of a body that carries no member at all
AnsweredMonitors ==
    {UnmarshalMonitor(JObj(Stored(MarshalMonitor(m).o, 7))).v : m \in SampleMonitors}
    \cup {[HTTPSampleMonitor EXCEPT !.Paused = <<TRUE>>, !.SuccessAssertions = <<>>,
              !.Request = [@ EXCEPT !.Body = <<>>, !.UserAgentSecret = <<>>,
                                   !.Headers = <<>>]],
          ZeroMonitor}
AnsweredStatusPages ==
    {UnmarshalStatusPage(JObj(Stored(MarshalStatusPage(p).o, 7))).v : p \in SampleStatusPages}
    \cup {ZeroStatusPage}
AnsweredAlertRules ==
    {UnmarshalAlertRule(JObj(Stored(MarshalAlertRule(e).o, 7))).v : e \in SampleAlertRules}
    \cup {[e EXCEPT !.EventSettings = [Type |-> ""]] : e \in SampleAlertRules}

\* the models an answered entity is written over: a plan, a state read earlier, or the
\* state of an import
PriorMonitors ==
    {NullUptimeMonitorModel,
     [UptimeMonitorResource_ImportState(Itoa(7)) EXCEPT !.CreatedAt = TfString("2023-12-31T00:00:00Z")]}
    \cup {[d EXCEPT !.ID = TfText(Itoa(7)), !.CreatedAt = TfString("2023-12-31T00:00:00Z"),
                    !.UpdatedAt = TfString("2023-12-31T00:00:00Z")]
            : d \in {MonitorPlan(<<>>, "http",
                        HTTPRequestBlock(TfString("ping"), TfString("s3cret"),
                                         TfList(<<HeaderObject(1)>>)),
                        TfNull, TfList(<<AssertionObject(1)>>), TfBool(TRUE)),
                     MonitorPlan(<<>>, "tcp", TfNull, TCPRequestBlock, TfNull, TfBool(FALSE))}}
PriorStatusPages ==
    {NullStatusPageModel}
    \cup {[StatusPagePlan(<<>>, TfString("status.example.com"), TfString("logo.png"),
                          TfString("favicon.ico"), TfList(<<ComponentObject(1)>>))
             EXCEPT !.ID = TfText(Itoa(7)), !.CreatedAt = TfString("2023-12-31T00:00:00Z"),
                    !.UpdatedAt = TfString("2023-12-31T00:00:00Z")]}
PriorAlertRules ==
    {NullAlertRuleModel}
    \cup {[d EXCEPT !.ID = TfText(Itoa(7)), !.CreatedAt = TfString("2023-12-31T00:00:00Z"),
                    !.UpdatedAt = TfString("2023-12-31T00:00:00Z")]
            : d \in AlertRulePlans(<<>>)}

\* the conversion op of the resource kind ran on the model data and left the entity
\* out, the diagnostics diags and the model result (<<>>: none)
Converted(op, kind, data, out, diags, result) ==
    HandlerCalled(op, kind, <<data>>, <<>>, Handled(<<>>, out, NoErr, diags, result))

MonitorForward ==
    /\ last = Idle
    /\ \E data \in DeclaredMonitors :
        LET conv == UptimeMonitor_terraformToAPIModel(data)
        IN  Converted("UptimeMonitorResource.terraformToAPIModel", "monitor", data,
                      conv.monitor, conv.diags, <<>>)

MonitorRoundTrip ==
    /\ last = Idle
    /\ \E data \in DeclaredMonitors :
        LET conv == UptimeMonitor_terraformToAPIModel(data)
        IN  /\ ~HasError(conv.diags)
            /\ Converted("UptimeMonitorResource.roundTrip", "monitor", data,
                         <<EchoMonitor(conv.monitor[1])>>, NoDiags,
                         <<UptimeMonitor_apiToTerraformModel(EchoMonitor(conv.monitor[1]), data)>>)

MonitorReverse ==
    /\ last = Idle
    /\ \E monitor \in AnsweredMonitors, data \in PriorMonitors :
        Converted("UptimeMonitorResource.apiToTerraformModel", "monitor", data,
                  <<monitor>>, NoDiags, <<UptimeMonitor_apiToTerraformModel(monitor, data)>>)

StatusPageForward ==
    /\ last = Idle
    /\ \E data \in DeclaredStatusPages :
        LET conv == StatusPage_terraformToAPIModel(data)
        IN  Converted("StatusPageResource.terraformToAPIModel", "page", data,
                      conv.page, conv.diags, <<>>)

StatusPageRoundTrip ==
    /\ last = Idle
    /\ \E data \in DeclaredStatusPages :
        LET conv == StatusPage_terraformToAPIModel(data)
        IN  /\ ~HasError(conv.diags)
            /\ Converted("StatusPageResource.roundTrip", "page", data,
                         <<EchoStatusPage(conv.page[1])>>, NoDiags,
                         <<StatusPage_apiToTerraformModel(EchoStatusPage(conv.page[1]), data)>>)

StatusPageReverse ==
    /\ last = Idle
    /\ \E page \in AnsweredStatusPages, data \in PriorStatusPages :
        Converted("StatusPageResource.apiToTerraformModel", "page", data,
                  <<page>>, NoDiags, <<StatusPage_apiToTerraformModel(page, data)>>)

AlertRuleReverse ==
    /\ last = Idle
    /\ \E rule \in AnsweredAlertRules, data \in PriorAlertRules :
        Converted("AlertRuleResource.apiToTerraformModel", "alert", data,
                  <<rule>>, NoDiags, <<AlertRule_apiToTerraformModel(rule, data)>>)

\* the entity the alert rule Create and Update handlers build from the plan
AlertRuleForward ==
    /\ last = Idle
    /\ \E data \in AlertRulePlans(<<>>) :
        Converted("AlertRuleResource.AlertRuleFromPlan", "alert", data,
                  <<AlertRuleFromPlan(data)>>, EventSettingsAs(data), <<>>)

\* the caller has taken the result
ConvertReturn ==
    /\ last # Idle
    /\ last' = Idle
    /\ tf' = NoState
    /\ UNCHANGED client

NextConvert ==
    \/ ConvertReturn
    \/ MonitorForward
    \/ MonitorRoundTrip
    \/ MonitorReverse
    \/ StatusPageForward
    \/ StatusPageRoundTrip
    \/ StatusPageReverse
    \/ AlertRuleReverse
    \/ AlertRuleForward

SpecConvert == Init /\ [][NextConvert]_vars

(***************************************************************************)
(* Properties of the client.                                               *)
(***************************************************************************)
DecodingOps ==
    {"CreateAlertRule", "GetAlertRule", "UpdateAlertRule", "ListAlertRules",
     "CreateMonitor", "GetMonitor", "UpdateMonitor", "ListMonitors",
     "CreateStatusPage", "GetStatusPage", "UpdateStatusPage", "ListStatusPages",
     "GetIncident", "ListIncidents"}
UndecodingOps ==
    {"DeleteAlertRule", "DeleteMonitor", "PauseMonitor", "ResumeMonitor",
     "DeleteStatusPage", "DeleteIncident"}
ClientOps == DecodingOps \cup UndecodingOps

\* the call in `last` went through an HTTP exchange that completed: a status and a
\* body arrived and the body was read
Exchanged == last.net.fail = "" /\ last.sent # <<>>

\* the heads by which a caller tells the errors apart
IsDecodeError(err) == Len(err) >= 1 /\ err[1] = PLit("failed to unmarshal response: ")
IsServerError(err) == Len(err) >= 2 /\ err[2] = PLit("API error (status ")

\* C1: whenever doRequest's exchange completes and the body is read, it returns an
\* error, and no body, if and only if the status is >= 400, and for a status < 400 it
\* returns exactly the bytes of the response.
C1_ErrorIffStatus ==
    (last.op = "doRequest" /\ Exchanged) =>
        /\ (last.err # NoErr) <=> (last.net.status >= 400)
        /\ (last.err # NoErr) => (last.out = <<>>)
        /\ (last.net.status < 400) => (last.out = <<last.net.body>>)
C1_Witness ==
    /\ last.op = "doRequest" /\ Exchanged
    /\ last.net.status = 399 /\ last.net.body.k = "invalid"
    /\ last.err = NoErr /\ last.out = <<last.net.body>>

\* C2: a create, get, update or list operation answered with a status < 400 and a body
\* that is not JSON returns no entity and a response-decoding error, and no error the
\* client builds for a status >= 400 can be taken for a decoding error, nor the reverse.
C2_InvalidJSONIsDecodeError ==
    (last.op \in DecodingOps /\ Exchanged) =>
        /\ (last.net.status < 400 /\ last.net.body.k = "invalid") =>
              /\ last.out = <<>>
              /\ IsDecodeError(last.err) /\ ~IsServerError(last.err)
        /\ (last.net.status >= 400) =>
              /\ last.out = <<>>
              /\ IsServerError(last.err) /\ ~IsDecodeError(last.err)
C2_Witness ==
    /\ last.op = "ListIncidents" /\ Exchanged
    /\ last.net.status = 200 /\ last.net.body = JInvalid("")
    /\ last.out = <<>> /\ IsDecodeError(last.err)

\* the answer is the single-item envelope {"data": {"id": id, ...}}
IsEnvelopeOf(body, id) ==
    /\ body.k = "obj" /\ DOMAIN body.o = {"data"}
    /\ body.o["data"].k = "obj" /\ HasKey(body.o["data"].o, "id")
    /\ body.o["data"].o["id"] = JNum(id)

\* C3: CreateMonitor answered with the envelope {"data": {"id": 42, ...}} returns the
\* entity inside data, with ID 42, and GetMonitor(42) answered with the same envelope
\* returns an entity with the protocol, interval and regions inside data.
C3_EnvelopeCreateThenGet ==
    ( /\ \/ last.op = "CreateMonitor"
         \/ last.op = "GetMonitor" /\ last.in.id = <<42>>
      /\ Exchanged /\ last.net.status < 400 /\ IsEnvelopeOf(last.net.body, 42) ) =>
        LET data == UnmarshalMonitor(last.net.body.o["data"]).v
        IN  /\ last.err = NoErr /\ last.out # <<>>
            /\ last.out[1].ID = <<42>>
            /\ last.out[1].Protocol = data.Protocol
            /\ last.out[1].Interval = data.Interval
            /\ last.out[1].Regions = data.Regions

\* C4: NewClient fails, returning no client, if and only if the token is empty; the
\* client it returns holds the token it was given and the base URL it was given, the
\* default one when it was given none.
C4_NewClient ==
    (last.op = "NewClient") =>
        /\ (last.err # NoErr) <=> (last.in.apiToken = "")
        /\ (last.err # NoErr) => (last.out = <<>> /\ client = <<>>)
        /\ (last.err = NoErr) =>
              /\ last.out # <<>> /\ client = last.out
              /\ last.out[1].apiToken = last.in.apiToken
              /\ (last.in.baseURL = "") => (last.out[1].baseURL = DefaultBaseURL)
              /\ (last.in.baseURL # "") => (last.out[1].baseURL = last.in.baseURL)
C4_Witness ==
    /\ last.op = "NewClient" /\ last.err = NoErr
    /\ last.in.baseURL = "http://localhost:8080"
    /\ client # <<>> /\ client[1].baseURL = "http://localhost:8080"
    /\ client[1].apiToken = last.in.apiToken

\* C5 as stated: every invocation of a client operation issues exactly one request.
C5_ExactlyOneRequest ==
    (last.op \in ClientOps) => (Len(last.sent) = 1)

\* C5 as amended: an invocation issues at most one request, none exactly when the
\* request cannot be built from the client's base URL, and a failed invocation
\* (transport, status >= 400, decoding) has issued its one request, returns its error
\* and returns no entity.
C5_NoRetry ==
    (last.op \in ClientOps) =>
        /\ Len(last.sent) <= 1
        /\ (Len(last.sent) = 0) <=> ~ParsesAsURL(client[1].baseURL)
        /\ (last.net.fail # "" \/ last.net.status >= 400) => (last.err # NoErr)
        /\ (last.err # NoErr) => (last.out = <<>>)
C5_Witness ==
    /\ last.op = "UpdateMonitor" /\ last.net.fail = "do"
    /\ Len(last.sent) = 1 /\ last.err # NoErr /\ last.out = <<>>

\* C6: every request the client issues carries the bearer token of the client, the
\* JSON content type and the JSON accept header and goes to the client's base URL,
\* and no operation but construction changes the client.
RequestsWellFormed ==
    \A i \in 1..Len(last.sent) :
        /\ client # <<>>
        /\ last.sent[i].header.Authorization = <<"Bearer ", client[1].apiToken>>
        /\ last.sent[i].header.ContentType = "application/json"
        /\ last.sent[i].header.Accept = "application/json"
        /\ last.sent[i].url.base = client[1].baseURL
C6_HeadersAndConfig ==
    /\ []RequestsWellFormed
    /\ [][last'.op # "NewClient" => client' = client]_vars
C6_Witness ==
    /\ last.op = "DeleteIncident" /\ Len(last.sent) = 1
    /\ last.sent[1].body = NoBody /\ last.sent[1].method = "DELETE"
    /\ last.sent[1].header.ContentType = "application/json"
    /\ last.sent[1].header.Authorization = <<"Bearer ", "phare_tok_B">>

\* the body is an error envelope {"message": m, "errors": {field: [message, ...]}}
\* whose errors map is not empty
IsValidationEnvelope(body) ==
    /\ body.k = "obj" /\ HasKey(body.o, "message") /\ HasKey(body.o, "errors")
    /\ body.o["message"].k = "str"
    /\ body.o["errors"].k = "obj" /\ DOMAIN body.o["errors"].o # {}
    /\ \A f \in DOMAIN body.o["errors"].o :
          /\ body.o["errors"].o[f].k = "arr"
          /\ \A i \in 1..Len(body.o["errors"].o[f].a) : body.o["errors"].o[f].a[i].k = "str"

\* C7: for a status >= 400 whose body is an error envelope with a non-empty errors
\* map, the error's text contains the message and every validation message of every
\* field.
C7_ValidationMessages ==
    (last.op \in ClientOps \cup {"doRequest"} /\ Exchanged /\ last.net.status >= 400
        /\ IsValidationEnvelope(last.net.body)) =>
        /\ ContainsStr(last.err, last.net.body.o["message"].s)
        /\ \A f \in DOMAIN last.net.body.o["errors"].o :
              \A i \in 1..Len(last.net.body.o["errors"].o[f].a) :
                  ContainsStr(last.err, last.net.body.o["errors"].o[f].a[i].s)
C7_Witness ==
    /\ last.op = "CreateStatusPage" /\ Exchanged /\ last.net.status = 422
    /\ IsValidationEnvelope(last.net.body)
    /\ DOMAIN last.net.body.o["errors"].o = {"name", "interval"}
    /\ Len(last.net.body.o["errors"].o["name"].a) = 2
    /\ ContainsStr(last.err, "is required")
    /\ ContainsStr(last.err, "must be one of 30, 60")

\* the body is an error envelope: an object with a message
IsErrorEnvelope(body) ==
    body.k = "obj" /\ HasKey(body.o, "message") /\ body.o["message"].k = "str"

\* C8 as stated: for a status >= 400 the body text is never lost: the error carries the
\* raw body whenever the body is no error envelope, and the envelope's message otherwise.
C8_BodyNeverLost ==
    (last.op \in ClientOps \cup {"doRequest"} /\ Exchanged /\ last.net.status >= 400) =>
        /\ ContainsInt(last.err, last.net.status)
        /\ \/ ContainsBody(last.err, last.net.body)
           \/ /\ IsErrorEnvelope(last.net.body)
              /\ ContainsStr(last.err, last.net.body.o["message"].s)

\* C8 as amended: for a status >= 400 the error contains the status code, and it
\* contains the raw body exactly when json.Unmarshal rejects the body as an
\* ErrorResponse; a body it accepts (null and {"error": ...} included) gives the decoded
\* message, empty when there is none, and not the raw body.
C8_RawBodyOnDecodeFailure ==
    (last.op \in ClientOps \cup {"doRequest"} /\ Exchanged /\ last.net.status >= 400) =>
        /\ ContainsInt(last.err, last.net.status)
        /\ ContainsBody(last.err, last.net.body)
              <=> ~UnmarshalErrorResponse(last.net.body).ok
        /\ UnmarshalErrorResponse(last.net.body).ok =>
              ContainsStr(last.err, UnmarshalErrorResponse(last.net.body).v.Message)
C8_Witness ==
    /\ last.op = "GetAlertRule" /\ Exchanged /\ last.net.status = 404
    /\ last.net.body.k = "invalid" /\ last.net.body.s # ""
    /\ ContainsInt(last.err, 404) /\ ContainsBody(last.err, last.net.body)

CreatedWithRateLimit0(state) ==
    /\ state # <<>>
    /\ state[1].ID.st = "known" /\ Atoi(state[1].ID.d).ok
    /\ state[1].RateLimit = TfInt64(0)

\* the server answers the update with a success status and the updated entity
AnswersUpdated(net, rateLimit) ==
    /\ net.fail = "" /\ net.status < 400
    /\ net.body.k = "obj" /\ HasKey(net.body.o, "rate_limit")
    /\ net.body.o["rate_limit"] = JNum(rateLimit)
    /\ UnmarshalAlertRule(net.body).ok

\* C10: for an alert rule in state with the id assigned at creation and rate_limit 0,
\* Update with a plan of rate_limit 5 issues exactly one request, POST /alert-rules/{id},
\* whose body is the planned entity with rate_limit 5; when the server answers with the
\* updated entity, the entity UpdateAlertRule returns and the state the handler writes
\* both have rate_limit 5.
C10_UpdateRateLimit ==
    ( /\ last.op = "AlertRuleResource.Update"
      /\ CreatedWithRateLimit0(last.in.state)
      /\ last.in.plan[1].RateLimit = TfInt64(5) ) =>
        /\ Len(last.sent) = 1
        /\ last.sent[1].method = "POST"
        /\ last.sent[1].url.path =
              [prefix |-> "/alert-rules", id |-> last.in.state[1].ID.d, suffix |-> ""]
        /\ last.sent[1].body.k = "obj"
        /\ last.sent[1].body.o["rate_limit"] = JNum(5)
        /\ last.sent[1].body.o["event"] = JStr(last.in.plan[1].Event.s)
        /\ last.sent[1].body.o["integration_id"] = JNum(last.in.plan[1].IntegrationID.n)
        /\ ~HasKey(last.sent[1].body.o, "id")
        /\ AnswersUpdated(last.net[1], 5) =>
              /\ last.diag = NoDiags /\ last.err = NoErr
              /\ last.out # <<>> /\ last.out[1].RateLimit = 5
              /\ tf.alert # <<>> /\ tf.alert[1].RateLimit = TfInt64(5)
C10_Witness ==
    /\ last.op = "AlertRuleResource.Update"
    /\ CreatedWithRateLimit0(last.in.state)
    /\ last.in.state[1].ID.d = <<"4", "2">>
    /\ last.in.plan[1].RateLimit = TfInt64(5)
    /\ AnswersUpdated(last.net[1], 5)
    /\ Len(last.sent) = 1
    /\ last.out[1].RateLimit = 5 /\ tf.alert[1].RateLimit = TfInt64(5)
    /\ tf.alert[1].ID = TfText(<<"4", "2">>)

\* the kind of object a handler works on
KindOf(op) ==
    IF op \in {"AlertRuleResource.Create", "AlertRuleResource.Read", "AlertRuleResource.Update",
               "AlertRuleResource.Delete", "AlertRuleResource.ImportState"} THEN "alert"
    ELSE IF op \in {"StatusPageResource.Create", "StatusPageResource.Read",
                    "StatusPageResource.Update", "StatusPageResource.Delete",
                    "StatusPageResource.ImportState"} THEN "page"
    ELSE IF op = "UptimeIncidentDataSource.Read" THEN "incident"
    ELSE "monitor"

\* the forward conversion a Create or Update handler runs on its plan: its diagnostics
PlanConversionDiags ==
    IF last.op \in {"UptimeMonitorResource.Create", "UptimeMonitorResource.Update"}
    THEN UptimeMonitor_terraformToAPIModel(last.in.plan[1]).diags
    ELSE IF last.op \in {"StatusPageResource.Create", "StatusPageResource.Update"}
    THEN StatusPage_terraformToAPIModel(last.in.plan[1]).diags
    ELSE IF last.op \in {"AlertRuleResource.Create", "AlertRuleResource.Update"}
    THEN EventSettingsAs(last.in.plan[1])
    ELSE NoDiags

CreateOps == {"AlertRuleResource.Create", "StatusPageResource.Create",
              "UptimeMonitorResource.Create"}
UpdateOps == {"AlertRuleResource.Update", "StatusPageResource.Update",
              "UptimeMonitorResource.Update"}

\* the request of an exchange reached the server and the server carried it out
Applied(net) == net # NoNet /\ net.fail # "do" /\ ~IsErrorStatus(net.status)

\* the first request of a Create or Update handler, the POST of the entity, was sent
\* and carried out: the remote entity is created or modified
RemoteChanged ==
    /\ last.op \in CreateOps \cup UpdateOps
    /\ last.sent # <<>>
    /\ last.sent[1].method = "POST"
    /\ Applied(last.net[1])

\* C12: every Create and Update handler invocation is atomic: it either succeeds, or
\* reports a failure having left the remote system unchanged; no failure is reported
\* after the remote entity was created or modified.
C12_AtomicCreateUpdate ==
    (last.op \in CreateOps \cup UpdateOps /\ HasError(last.diag)) => ~RemoteChanged

ReadOps   == {"AlertRuleResource.Read", "StatusPageResource.Read", "UptimeMonitorResource.Read"}
DeleteOps == {"AlertRuleResource.Delete", "StatusPageResource.Delete",
              "UptimeMonitorResource.Delete"}

\* the id the answer to the first request of a Create carries: the id the server
\* assigned (<<>>: none)
AssignedID ==
    LET body == last.net[1].body
    IN  CASE KindOf(last.op) = "alert"   -> UnmarshalAlertRule(body).v.ID
          [] KindOf(last.op) = "page"    -> UnmarshalStatusPage(body).v.ID
          [] KindOf(last.op) = "monitor" -> UnmarshalMonitor(body).v.ID

\* every request the handler issued addresses the id in its path
AllAddress(sent, id) == \A i \in 1..Len(sent) : sent[i].url.path.id = Itoa(id)

SnapshotID ==
    IF last.op \in UpdateOps \cup {"UptimeIncidentDataSource.Read"}
    THEN ValueText(last.in.plan[1].ID)
    ELSE ValueText(last.in.state[1].ID)

ParsingOps == ReadOps \cup UpdateOps \cup DeleteOps \cup {"UptimeIncidentDataSource.Read"}

\* the "Invalid ... ID" diagnostic of each kind of object
InvalidIDOf(kind) ==
    CASE kind = "alert"    -> InvalidID("Invalid alert rule ID", "Failed to parse alert rule ID: ")
      [] kind = "page"     -> InvalidID("Invalid status page ID", "Failed to parse status page ID: ")
      [] kind = "monitor"  -> InvalidID("Invalid monitor ID", "Failed to parse monitor ID: ")
      [] kind = "incident" -> InvalidID("Invalid incident ID", "Failed to parse incident ID: ")

\* the handler issued no request, met no client error and left the state as it was
NothingDone ==
    /\ last.sent = <<>>
    /\ last.err = NoErr
    /\ tf = [NoState EXCEPT ![KindOf(last.op)] = last.in.state]

\* C14 as claimed: in every Read, Update and Delete handler and in the incident data
\* source Read, an id string that does not parse as an integer makes the handler
\* report the "Invalid ... ID" error, issue no request and write no state.
C14_InvalidIDAlways ==
    (last.op \in ParsingOps /\ ~Atoi(SnapshotID).ok) =>
        /\ last.diag = InvalidIDOf(KindOf(last.op))
        /\ NothingDone

\* C14, amended: the same, except that Update converts its plan before it parses the
\* id, so that when that conversion reports an error the handler reports the
\* conversion error instead; no request is issued and no state written either way.
C14_InvalidIDUnlessConversionFails ==
    (last.op \in ParsingOps /\ ~Atoi(SnapshotID).ok) =>
        /\ NothingDone
        /\ last.diag = IF last.op \in UpdateOps /\ HasError(PlanConversionDiags)
                       THEN PlanConversionDiags
                       ELSE InvalidIDOf(KindOf(last.op))

\* the data source read with an id that is no number, on a client whose requests
\* would go out
C14_Witness ==
    /\ last.op = "UptimeIncidentDataSource.Read"
    /\ ~Atoi(SnapshotID).ok
    /\ ParsesAsURL(client[1].baseURL)
    /\ last.diag = InvalidIDOf("incident")

(***************************************************************************)
(* Properties of the conversions.                                          *)
(***************************************************************************)
\* the attributes of a monitor a configuration declares (id and the timestamps are
\* computed)
MonitorDeclaredAttrs ==
    {"Name", "Protocol", "HTTPRequest", "TCPRequest", "Interval", "Timeout",
     "IncidentConfirmations", "RecoveryConfirmations", "Regions", "SuccessAssertions",
     "Paused"}

\* C15: for every monitor model, terraformToAPIModel followed by apiToTerraformModel
\* (the API echoing the entity unchanged) yields a model equal to the original in
\* every declared field, optional fields left null and empty lists included.
C15_MonitorRoundTrip ==
    last.op = "UptimeMonitorResource.roundTrip" =>
        \A a \in MonitorDeclaredAttrs : tf.monitor[1][a] = last.in.plan[1][a]

StatusPageDeclaredAttrs ==
    {"Name", "Title", "Description", "SearchEngineIndexed", "WebsiteURL", "Subdomain",
     "Domain", "Timeframe", "Logo", "Favicon", "Colors", "Components"}

\* C16: for every status page model, terraformToAPIModel followed by
\* apiToTerraformModel (the API echoing the entity unchanged) yields a model equal to
\* the original in name, title, description, search_engine_indexed, website_url,
\* subdomain, domain, timeframe, logo, favicon, the six colors and the component list,
\* whether domain, logo and favicon are set or null.
C16_StatusPageRoundTrip ==
    last.op = "StatusPageResource.roundTrip" =>
        \A a \in StatusPageDeclaredAttrs : tf.page[1][a] = last.in.plan[1][a]

\* a round trip of a page with a domain and a logo, no favicon and two components
C16_Witness ==
    /\ last.op = "StatusPageResource.roundTrip"
    /\ last.in.plan[1].Domain = TfString("status.example.com")
    /\ last.in.plan[1].Logo = TfString("logo.png")
    /\ last.in.plan[1].Favicon = TfNull
    /\ Len(last.in.plan[1].Components.l) = 2
    /\ tf.page[1].Domain = TfString("status.example.com")
    /\ tf.page[1].Favicon = TfNull

\* the attribute attr of the model keeps its prior value when the pointer or list
\* field of the answered entity is absent
Kept(kind, attr, field) ==
    field = <<>> => tf[kind][1][attr] = last.in.plan[1][attr]

\* the same for an attribute of the http_request block, when the prior model held one
KeptInHTTPRequest(attr, field) ==
    (field = <<>> /\ last.in.plan[1].HTTPRequest.st = "known"
       /\ tf.monitor[1].HTTPRequest.st = "known")
      => tf.monitor[1].HTTPRequest.o[attr] = last.in.plan[1].HTTPRequest.o[attr]

\* C17: in the reverse conversion of every resource, a field absent from the API
\* response never overwrites a value already present in the model: project_id,
\* paused, user_agent_secret, body, headers, success_assertions, domain, logo,
\* favicon and the timestamps keep their previous value.
C17_AbsentKeepsPrior ==
    /\ last.op = "AlertRuleResource.apiToTerraformModel" =>
          /\ Kept("alert", "ProjectID", last.out[1].ProjectID)
          /\ Kept("alert", "CreatedAt", last.out[1].CreatedAt)
          /\ Kept("alert", "UpdatedAt", last.out[1].UpdatedAt)
    /\ last.op = "StatusPageResource.apiToTerraformModel" =>
          /\ Kept("page", "Domain", last.out[1].Domain)
          /\ Kept("page", "Logo", last.out[1].Logo)
          /\ Kept("page", "Favicon", last.out[1].Favicon)
          /\ Kept("page", "CreatedAt", last.out[1].CreatedAt)
          /\ Kept("page", "UpdatedAt", last.out[1].UpdatedAt)
    /\ last.op = "UptimeMonitorResource.apiToTerraformModel" =>
          /\ Kept("monitor", "Paused", last.out[1].Paused)
          /\ Kept("monitor", "SuccessAssertions", last.out[1].SuccessAssertions)
          /\ Kept("monitor", "CreatedAt", last.out[1].CreatedAt)
          /\ Kept("monitor", "UpdatedAt", last.out[1].UpdatedAt)
          /\ KeptInHTTPRequest("Body", last.out[1].Request.Body)
          /\ KeptInHTTPRequest("UserAgentSecret", last.out[1].Request.UserAgentSecret)
          /\ KeptInHTTPRequest("Headers", last.out[1].Request.Headers)

\* the event_settings an alert-rule handler started from: of the plan in Create and
\* Update, of the prior state in Read
PriorEventSettings ==
    IF last.op = "AlertRuleResource.Read"
    THEN last.in.state[1].EventSettings
    ELSE last.in.plan[1].EventSettings

\* C18: across every sequence of alert-rule Create, Read and Update, when the API
\* response carries no event_settings (empty type) the event_settings already in the
\* plan or state is left unchanged; it is replaced only when the response carries a
\* non-empty type, and then by exactly that type. A handler that fails leaves the
\* event_settings of the state as it was.
C18_EventSettingsPreserved ==
    last.op \in {"AlertRuleResource.Create", "AlertRuleResource.Read",
                 "AlertRuleResource.Update"} =>
        IF HasError(last.diag)
        THEN tf.alert = last.in.state
        ELSE tf.alert[1].EventSettings =
                IF last.out[1].EventSettings.Type = ""
                THEN PriorEventSettings
                ELSE TfObject([type |-> TfString(last.out[1].EventSettings.Type)])

\* a Read answered without event_settings on a state that holds type "all"
C18_Witness ==
    /\ last.op = "AlertRuleResource.Read"
    /\ ~HasError(last.diag)
    /\ last.out[1].EventSettings.Type = ""
    /\ last.in.state[1].EventSettings = TfObject([type |-> TfString("all")])
    /\ tf.alert[1].EventSettings = TfObject([type |-> TfString("all")])

\* a Read of an imported rule, whose null event_settings the answer replaces
C18_WitnessReplaced ==
    /\ last.op = "AlertRuleResource.Read"
    /\ ~HasError(last.diag)
    /\ last.in.state[1].EventSettings = TfNull
    /\ tf.alert[1].EventSettings = TfObject([type |-> TfString("all")])

\* C19: after the reverse conversion of a monitor entity exactly one of the two
\* request blocks is populated and the other is null: for protocol http the
\* http_request block is populated and tcp_request is null, for protocol tcp the
\* tcp_request block is populated and http_request is null; neither block is ever
\* left at the value it held before the conversion.
C19_ExactlyOneRequestBlock ==
    last.op = "UptimeMonitorResource.apiToTerraformModel" =>
        LET monitor == last.out[1]
            data    == tf.monitor[1]
        IN  /\ monitor.Protocol = "http" =>
                  /\ data.HTTPRequest = HTTPRequestObject(monitor.Request)
                  /\ data.TCPRequest = TfNull
            /\ monitor.Protocol = "tcp" =>
                  /\ data.TCPRequest = TCPRequestObject(monitor.Request)
                  /\ data.HTTPRequest = TfNull
            /\ (data.HTTPRequest.st = "known") # (data.TCPRequest.st = "known")
            /\ data.HTTPRequest.st = "null" \/ data.TCPRequest.st = "null"

\* some member of the HTTP field set of a request descriptor is present
HTTPFieldSetPopulated(request) ==
    \/ request.Method # <<>>
    \/ request.URL # <<>>
    \/ request.Body # <<>>
    \/ request.FollowRedirects # <<>>
    \/ request.UserAgentSecret # <<>>
    \/ request.Headers # <<>>

\* some member of the TCP field set of a request descriptor is present
TCPFieldSetPopulated(request) ==
    \/ request.Host # <<>>
    \/ request.Port # <<>>
    \/ request.Connection # <<>>

\* C20: every monitor entity terraformToAPIModel returns without an error has a
\* request descriptor in which exactly one of the HTTP field set (method, url, body,
\* follow_redirects, user_agent_secret, headers) and the TCP field set (host, port,
\* connection) is populated, the populated set being the one the protocol names; the
\* two are never populated together nor both empty.
C20_RequestMatchesProtocol ==
    (last.op = "UptimeMonitorResource.terraformToAPIModel" /\ ~HasError(last.diag)) =>
        LET monitor == last.out[1]
        IN  /\ monitor.Protocol \in {"http", "tcp"}
            /\ HTTPFieldSetPopulated(monitor.Request) <=> monitor.Protocol = "http"
            /\ TCPFieldSetPopulated(monitor.Request) <=> monitor.Protocol = "tcp"
            /\ monitor.Protocol = "http" =>
                  /\ monitor.Request.Method # <<>>
                  /\ monitor.Request.URL # <<>>
            /\ monitor.Protocol = "tcp" =>
                  /\ monitor.Request.Host # <<>>
                  /\ monitor.Request.Port # <<>>
                  /\ monitor.Request.Connection # <<>>

\* the conversion of a tcp monitor whose configuration declares both request blocks
C20_Witness ==
    /\ last.op = "UptimeMonitorResource.terraformToAPIModel"
    /\ ~HasError(last.diag)
    /\ last.in.plan[1].Protocol = TfString("tcp")
    /\ last.in.plan[1].HTTPRequest.st = "known"
    /\ last.in.plan[1].TCPRequest.st = "known"
    /\ TCPFieldSetPopulated(last.out[1].Request)
    /\ ~HTTPFieldSetPopulated(last.out[1].Request)

\* the pointer field a declared string, integer or boolean is to become: absent for
\* null, else the declared value
StringField(x) == IF IsNull(x) THEN <<>> ELSE <<x.s>>
Int64Field(x)  == IF IsNull(x) THEN <<>> ELSE <<x.n>>
BoolField(x)   == IF IsNull(x) THEN <<>> ELSE <<x.b>>

\* the header list and the assertion list a declared list is to become
HeadersField(x) ==
    IF IsNull(x) THEN <<>>
    ELSE [i \in 1..Len(x.l) |-> [Name |-> x.l[i].o.Name.s, Value |-> x.l[i].o.Value.s]]
AssertionsField(x) ==
    IF IsNull(x) THEN <<>>
    ELSE [i \in 1..Len(x.l) |->
            [Type     |-> x.l[i].o.Type.s,
             Operator |-> StringField(x.l[i].o.Operator),
             Value    |-> StringField(x.l[i].o.Value),
             Property |-> StringField(x.l[i].o.Property)]]

\* the forward conversions leave every optional field other than paused absent when
\* the declared value is null and copy the declared value otherwise
OptionalFieldsForwarded ==
    /\ last.op = "AlertRuleResource.AlertRuleFromPlan" =>
          last.out[1].ProjectID = Int64Field(last.in.plan[1].ProjectID)
    /\ (last.op = "StatusPageResource.terraformToAPIModel" /\ ~HasError(last.diag)) =>
          LET data == last.in.plan[1]
              page == last.out[1]
          IN  /\ page.Domain = StringField(data.Domain)
              /\ page.Logo = StringField(data.Logo)
              /\ page.Favicon = StringField(data.Favicon)
              /\ page.Subdomain = StringField(data.Subdomain)
              /\ page.Timeframe = Int64Field(data.Timeframe)
    /\ (last.op = "UptimeMonitorResource.terraformToAPIModel" /\ ~HasError(last.diag)) =>
          LET data    == last.in.plan[1]
              monitor == last.out[1]
          IN  /\ monitor.SuccessAssertions = AssertionsField(data.SuccessAssertions)
              /\ monitor.Protocol = "http" =>
                    /\ monitor.Request.Body = StringField(data.HTTPRequest.o.Body)
                    /\ monitor.Request.UserAgentSecret
                          = StringField(data.HTTPRequest.o.UserAgentSecret)
                    /\ monitor.Request.Headers = HeadersField(data.HTTPRequest.o.Headers)
                    /\ monitor.Request.TLSSkipVerify
                          = BoolField(data.HTTPRequest.o.TLSSkipVerify)
                    /\ monitor.Request.FollowRedirects
                          = BoolField(data.HTTPRequest.o.FollowRedirects)
              /\ monitor.Protocol = "tcp" =>
                    monitor.Request.TLSSkipVerify = BoolField(data.TCPRequest.o.TLSSkipVerify)

Elementwise(in, out, Elem(_)) ==
    /\ Len(out) = Len(in)
    /\ \A i \in 1..Len(in) : out[i] = Elem(in[i])

RegionForward(x)     == x.s
HeaderForward(x)     == [Name |-> x.o.Name.s, Value |-> x.o.Value.s]
AssertionForward(x)  ==
    [Type |-> x.o.Type.s, Operator |-> StringField(x.o.Operator),
     Value |-> StringField(x.o.Value), Property |-> StringField(x.o.Property)]
ComponentForward(x)  ==
    [ComponentableType |-> x.o.ComponentableType.s,
     ComponentableID   |-> x.o.ComponentableID.n]
RegionReverse(r)     == TfString(r)
HeaderReverse(h)     == TfObject([Name |-> TfString(h.Name), Value |-> TfString(h.Value)])
AssertionReverse(a)  ==
    TfObject([Type |-> TfString(a.Type), Operator |-> StringPointerValue(a.Operator),
              Value |-> StringPointerValue(a.Value),
              Property |-> StringPointerValue(a.Property)])
ComponentReverse(c)  ==
    TfObject([ComponentableType |-> TfString(c.ComponentableType),
              ComponentableID   |-> TfInt64(c.ComponentableID)])

\* C22: list-typed fields keep their order and length in both conversion directions:
\* for monitor regions, request headers and success assertions and for status-page
\* components the i-th element of the converted list is the conversion of the i-th
\* element of the source list, with no element dropped, duplicated or reordered.
C22_ListsKeepOrder ==
    /\ (last.op = "UptimeMonitorResource.terraformToAPIModel" /\ ~HasError(last.diag)) =>
          LET data    == last.in.plan[1]
              monitor == last.out[1]
          IN  /\ Elementwise(data.Regions.l, monitor.Regions, RegionForward)
              /\ Elementwise(data.SuccessAssertions.l, monitor.SuccessAssertions,
                             AssertionForward)
              /\ monitor.Protocol = "http" =>
                    Elementwise(data.HTTPRequest.o.Headers.l, monitor.Request.Headers,
                                HeaderForward)
    /\ (last.op = "StatusPageResource.terraformToAPIModel" /\ ~HasError(last.diag)) =>
          Elementwise(last.in.plan[1].Components.l, last.out[1].Components,
                      ComponentForward)
    /\ last.op \in {"UptimeMonitorResource.apiToTerraformModel",
                     "UptimeMonitorResource.roundTrip"} =>
          LET monitor == last.out[1]
              data    == tf.monitor[1]
          IN  /\ Elementwise(monitor.Regions, data.Regions.l, RegionReverse)
              /\ Elementwise(monitor.SuccessAssertions, data.SuccessAssertions.l,
                             AssertionReverse)
              /\ monitor.Protocol = "http" =>
                    Elementwise(monitor.Request.Headers, data.HTTPRequest.o.Headers.l,
                                HeaderReverse)
    /\ last.op \in {"StatusPageResource.apiToTerraformModel",
                     "StatusPageResource.roundTrip"} =>
          Elementwise(last.out[1].Components, tf.page[1].Components.l, ComponentReverse)

\* a monitor with two different headers and two different assertions converted forward
C22_Witness ==
    /\ last.op = "UptimeMonitorResource.terraformToAPIModel"
    /\ ~HasError(last.diag)
    /\ Len(last.in.plan[1].HTTPRequest.o.Headers.l) = 2
    /\ last.out[1].Request.Headers[1].Name = "X-Probe"
    /\ last.out[1].Request.Headers[2].Name = "Accept"
    /\ Len(last.out[1].SuccessAssertions) = 2
    /\ last.out[1].SuccessAssertions[1].Type = "status_code"
    /\ last.out[1].SuccessAssertions[2].Type = "response_body"

\* a monitor entity with two different headers converted back
C22_WitnessReverse ==
    /\ last.op = "UptimeMonitorResource.roundTrip"
    /\ Len(last.out[1].Request.Headers) = 2
    /\ tf.monitor[1].HTTPRequest.o.Headers.l[1].o.Name = TfString("X-Probe")
    /\ tf.monitor[1].HTTPRequest.o.Headers.l[2].o.Name = TfString("Accept")

\* the token and the base URL Configure is to use: the configured value when one is
\* configured, else the environment variable, else for the base URL the default
ConfiguredToken ==
    IF ~IsNull(last.in.apiToken) THEN last.in.apiToken.s ELSE last.in.envToken
ConfiguredBaseURL ==
    IF ~IsNull(last.in.baseURL) THEN last.in.baseURL.s
    ELSE IF last.in.envURL # "" THEN last.in.envURL
    ELSE DefaultBaseURL

\* C23: Configure builds the client from the configured token and base URL whenever
\* one is configured, else from the environment variable, else for the base URL from
\* the production default; when the resulting token is empty it reports the missing
\* token as an error and hands no client to any resource or data source.
C23_ConfigurePrecedence ==
    last.op = "Configure" =>
        IF ConfiguredToken = ""
        THEN /\ client = <<>>
             /\ Len(last.diag) = 1
             /\ last.diag[1].summary = "Missing API Token Configuration"
        ELSE /\ ~HasError(last.diag)
             /\ client = NewClient(ConfiguredToken, ConfiguredBaseURL).client
             /\ client # <<>>
             /\ client[1].apiToken = ConfiguredToken
             /\ ConfiguredBaseURL # "" => client[1].baseURL = ConfiguredBaseURL

\* Configure with a token and a base URL in the configuration and others in the
\* environment
C23_Witness ==
    /\ last.op = "Configure"
    /\ last.in.apiToken = TfString("phare_tok_A")
    /\ last.in.envToken = "phare_tok_B"
    /\ last.in.baseURL = TfString("http://localhost:8080")
    /\ last.in.envURL = "https://staging.phare.io"
    /\ client # <<>>
    /\ client[1].apiToken = "phare_tok_A"
    /\ client[1].baseURL = "http://localhost:8080"

\* Configure with an empty token in the configuration and a token in the environment
C23_WitnessMissing ==
    /\ last.op = "Configure"
    /\ last.in.apiToken = TfString("")
    /\ last.in.envToken = "phare_tok_B"
    /\ client = <<>>
    /\ HasError(last.diag)

\* the exchange of the operation failed in the transport: the request went out and Do
\* returned an error (connection failure, timeout, cancelled context)
TransportFailed == last.net.fail = "do" /\ last.sent # <<>>

\* C24: when the HTTP exchange fails at the transport level, the client operation
\* returns an error wrapping the underlying cause and returns no entity; no response
\* body is decoded and the operation issues no further request.
C24_TransportFailure ==
    (last.op \in ClientOps \cup {"doRequest"} /\ TransportFailed) =>
        /\ last.err # NoErr
        /\ \E i \in 1..Len(last.err) :
              /\ last.err[i] = PCause(last.net.cause)
              /\ i > 1 /\ last.err[i - 1] = PLit("failed to execute request: ")
        /\ last.out = <<>>
        /\ ~IsDecodeError(last.err)
        /\ ~IsServerError(last.err)
        /\ Len(last.sent) = 1

\* GetMonitor whose context is cancelled while the request is in flight
C24_Witness ==
    /\ last.op = "GetMonitor"
    /\ TransportFailed
    /\ last.net.cause = "context canceled"
    /\ last.err = <<PLit("failed to get monitor: "), PLit("failed to execute request: "),
                    PCause("context canceled")>>
    /\ last.out = <<>>

\* the entity of a resource kind that json.Unmarshal leaves for a body carrying none
\* of its members
EmptyEntity(kind) ==
    CASE kind = "alert"   -> UnmarshalAlertRule(JNull).v
      [] kind = "page"    -> ZeroStatusPage
      [] kind = "monitor" -> ZeroMonitor

\* the answer to the get or update request of a Read or Update handler was a success
\* whose body is a JSON object with none of the members of the entity
AnsweredOtherShape ==
    /\ last.op \in ReadOps \cup UpdateOps
    /\ last.sent # <<>>
    /\ last.net[1].fail = "" /\ ~IsErrorStatus(last.net[1].status)
    /\ last.net[1].body = JObj(NoFields)

\* C25: for get and update operations and the handlers that use them, a success
\* response whose body is valid JSON but does not match the shape of the entity (an
\* empty object) yields a decoding error rather than an entity with zero or empty
\* fields, so that no handler writes an all-empty entity into state.
C25_OtherShapeIsDecodeError ==
    /\ AnsweredOtherShape =>
          /\ HasError(last.diag)
          /\ IsDecodeError(last.err)
          /\ tf[KindOf(last.op)] = last.in.state
    /\ (last.op \in ReadOps \cup UpdateOps /\ ~HasError(last.diag)) =>
          last.out[1] # EmptyEntity(KindOf(last.op))

\* the collection path of a resource kind
CollectionOf(kind) ==
    CASE kind = "alert"   -> "/alert-rules"
      [] kind = "page"    -> "/uptime/status-pages"
      [] kind = "monitor" -> "/uptime/monitors"

\* the plan of a monitor handler gives paused the known value true
PlanPaused ==
    /\ KindOf(last.op) = "monitor"
    /\ last.in.plan[1].Paused = TfBool(TRUE)

\* the requests of a Create in their order: the POST of the entity, the pause of the
\* monitor when the plan says so, and the read-back of the id the POST returned
CreateRequests ==
    LET kind == KindOf(last.op)
    IN  <<[method |-> "POST", path |-> Path(CollectionOf(kind), <<>>, "")]>>
        \o (IF PlanPaused
            THEN <<[method |-> "POST", path |-> Path(CollectionOf(kind), AssignedID, "/pause")]>>
            ELSE <<>>)
        \o <<[method |-> "GET", path |-> Path(CollectionOf(kind), AssignedID, "")]>>

\* the entity the last exchange of the handler answered, written over data
ReadBackOver(data) ==
    LET kind == KindOf(last.op)
        body == last.net[Len(last.net)].body
    IN  CASE kind = "alert"   -> AlertRule_apiToTerraformModel(UnmarshalAlertRule(body).v, data)
          [] kind = "page"    -> StatusPage_apiToTerraformModel(UnmarshalStatusPage(body).v, data)
          [] kind = "monitor" ->
                UptimeMonitor_apiToTerraformModel(UnmarshalMonitor(body).v, data)

\* C26: a monitor Create issues POST /uptime/monitors first, then, only if the plan
\* has paused = true, POST /uptime/monitors/{id}/pause, then GET /uptime/monitors/{id},
\* {id} being the id the POST returned; the state is written only after all of them
\* succeeded and is built from the answer to the GET, never from the answer to the
\* POST. Status page and alert rule Create follow the same order without the pause.
C26_CreateRequestOrder ==
    last.op \in CreateOps =>
        /\ Len(last.sent) <= Len(CreateRequests)
        /\ \A i \in 1..Len(last.sent) :
              /\ last.sent[i].method = CreateRequests[i].method
              /\ last.sent[i].url.path = CreateRequests[i].path
        /\ tf[KindOf(last.op)] # <<>> =>
              /\ ~HasError(last.diag)
              /\ Len(last.sent) = Len(CreateRequests)
              /\ \A i \in 1..Len(last.net) : last.net[i] = NoNet \/ Applied(last.net[i])
              /\ tf[KindOf(last.op)][1] = ReadBackOver(last.in.plan[1])

\* a monitor Create that paused the monitor and wrote the state from a read-back
\* that differs from the answer to the POST
C26_Witness ==
    /\ last.op = "UptimeMonitorResource.Create"
    /\ Len(last.sent) = 3
    /\ last.sent[2].url.path = Path("/uptime/monitors", <<7>>, "/pause")
    /\ last.sent[3].method = "GET"
    /\ last.net[1].body # last.net[3].body
    /\ tf.monitor # <<>>

\* the update POST of a monitor Update was answered with success and a body that
\* decodes as a monitor
UpdateSucceeded ==
    /\ last.net[1].fail = ""
    /\ ~IsErrorStatus(last.net[1].status)
    /\ UnmarshalMonitor(last.net[1].body).ok

\* the action sub-paths a monitor Update owes after its update POST
SideEffects ==
    LET planPaused  == last.in.plan[1].Paused = TfBool(TRUE)
        statePaused == last.in.state[1].Paused = TfBool(TRUE)
    IN  IF ~UpdateSucceeded THEN <<>>
        ELSE IF planPaused /\ ~statePaused THEN <<"/pause">>
        ELSE IF ~planPaused /\ statePaused THEN <<"/resume">>
        ELSE <<>>

\* C27: a monitor Update issues the update POST first and then at most one side
\* effect request: POST .../pause if and only if the plan is paused and the prior
\* state is not, POST .../resume if and only if the plan is not paused (false, null
\* or unknown) and the prior state is paused, neither when the two agree; pause and
\* resume carry no body and are never issued when the update POST failed.
C27_UpdateSideEffects ==
    (last.op = "UptimeMonitorResource.Update" /\ last.sent # <<>>) =>
        /\ last.sent[1].method = "POST"
        /\ last.sent[1].url.path.prefix = "/uptime/monitors"
        /\ last.sent[1].url.path.suffix = ""
        /\ last.sent[1].body # NoBody
        /\ Len(last.sent) = 1 + Len(SideEffects)
        /\ \A i \in 2..Len(last.sent) :
              /\ last.sent[i].method = "POST"
              /\ last.sent[i].url.path =
                    [last.sent[1].url.path EXCEPT !.suffix = SideEffects[1]]
              /\ last.sent[i].body = NoBody

\* a monitor Update whose plan leaves paused unknown resumed a paused monitor
C27_Witness ==
    /\ last.op = "UptimeMonitorResource.Update"
    /\ last.in.state[1].Paused = TfBool(TRUE)
    /\ last.in.plan[1].Paused = TfUnknown
    /\ Len(last.sent) = 2
    /\ last.sent[2].url.path.suffix = "/resume"
    /\ ~HasError(last.diag)

\* the other cases: a pause, an Update of a paused monitor planned paused that sends
\* the update POST alone, and a failed update POST that owed a pause
C27_WitnessPause ==
    /\ last.op = "UptimeMonitorResource.Update"
    /\ Len(last.sent) = 2
    /\ last.sent[2].url.path.suffix = "/pause"
C27_WitnessAgree ==
    /\ last.op = "UptimeMonitorResource.Update"
    /\ last.in.state[1].Paused = TfBool(TRUE)
    /\ last.in.plan[1].Paused = TfBool(TRUE)
    /\ Len(last.sent) = 1
    /\ ~HasError(last.diag)
C27_WitnessFailed ==
    /\ last.op = "UptimeMonitorResource.Update"
    /\ last.in.state[1].Paused = TfBool(FALSE)
    /\ last.in.plan[1].Paused = TfBool(TRUE)
    /\ Len(last.sent) = 1
    /\ ~UpdateSucceeded

\* a monitor Create or Update succeeded on a plan that gives paused a known value
PausedPlanned ==
    /\ last.op \in {"UptimeMonitorResource.Create", "UptimeMonitorResource.Update"}
    /\ ~HasError(last.diag)
    /\ last.in.plan[1].Paused.st = "known"

\* C28: after every successful monitor Create or Update whose plan gives paused a
\* known value, the paused value written to state equals the planned value, whatever
\* paused value (or none) the answers of the server carried, including the case where
\* plan and prior state are both paused = true.
C28_PausedAsPlanned ==
    PausedPlanned =>
        /\ tf.monitor # <<>>
        /\ tf.monitor[1].Paused = last.in.plan[1].Paused

\* the same, restricted to the Updates that issued a pause or a resume
C28_PausedAsPlannedWhenToggled ==
    (PausedPlanned /\ last.op = "UptimeMonitorResource.Update" /\ Len(last.sent) = 2) =>
        tf.monitor[1].Paused = last.in.plan[1].Paused

\* an Update of a paused monitor planned paused succeeds and records paused = false
C28_BothPausedRecordsFalse ==
    /\ PausedPlanned
    /\ last.op = "UptimeMonitorResource.Update"
    /\ last.in.state[1].Paused = TfBool(TRUE)
    /\ last.in.plan[1].Paused = TfBool(TRUE)
    /\ tf.monitor[1].Paused = TfBool(FALSE)

\* a Create planned paused that issued the pause records paused = false
C28_CreatePausedRecordsFalse ==
    /\ PausedPlanned
    /\ last.op = "UptimeMonitorResource.Create"
    /\ last.in.plan[1].Paused = TfBool(TRUE)
    /\ Len(last.sent) = 3
    /\ tf.monitor[1].Paused = TfBool(FALSE)

\* the answer to the create POST was a success that decodes as the entity
CreateAnswered ==
    LET net == last.net[1]
        kind == KindOf(last.op)
    IN  /\ last.sent # <<>>
        /\ net.fail = ""
        /\ ~IsErrorStatus(net.status)
        /\ CASE kind = "alert"   -> UnmarshalAlertRule(net.body).ok
             [] kind = "page"    -> UnmarshalStatusPage(net.body).ok
             [] kind = "monitor" -> UnmarshalMonitor(net.body).ok

\* the diagnostic of a create answer without id
MissingID(kind) ==
    CASE kind = "alert"   -> Diag("Failed to create alert rule",
                                  <<PLit("API did not return an alert rule ID")>>)
      [] kind = "page"    -> Diag("Failed to create status page",
                                  <<PLit("API did not return a status page ID")>>)
      [] kind = "monitor" -> Diag("Failed to create monitor",
                                  <<PLit("API did not return a monitor ID")>>)

C29_WitnessRecorded ==
    /\ last.op = "StatusPageResource.Create"
    /\ ~HasError(last.diag)
    /\ AssignedID = <<42>>
    /\ tf.page[1].ID = TfText(Itoa(42))

\* a successful Create whose read-back answered another id than the one asked for, or
\* none: the id recorded is not the one the create POST returned
C29_WitnessOtherID ==
    /\ last.op \in CreateOps
    /\ ~HasError(last.diag)
    /\ last.out[1].ID # AssignedID
    /\ tf[KindOf(last.op)][1].ID # TfText(Itoa(AssignedID[1]))

\* C30: whenever a Read, Update or Delete handler reports an error (an id that does
\* not parse, a client error of any kind, a conversion error), it has not written the
\* response state: the declarative state held before the call is left exactly as it
\* was, in every field.
C30_ErrorLeavesState ==
    (last.op \in ReadOps \cup UpdateOps \cup DeleteOps /\ HasError(last.diag)) =>
        /\ last.in.state # <<>>
        /\ tf = [NoState EXCEPT ![KindOf(last.op)] = last.in.state]

\* a monitor Read whose GET was answered 404 keeps the state it was called on
C30_Witness ==
    /\ last.op = "UptimeMonitorResource.Read"
    /\ HasError(last.diag)
    /\ last.net[1].status = 404
    /\ tf.monitor = last.in.state
    /\ tf.monitor # <<>>

\* the other causes: an id that does not parse, a monitor Update whose pause failed
\* after the update POST was applied, a Delete that failed, a conversion error
C30_WitnessInvalidID ==
    /\ last.op \in ReadOps \cup UpdateOps \cup DeleteOps
    /\ HasError(last.diag)
    /\ last.sent = <<>>
    /\ ~Atoi(SnapshotID).ok
C30_WitnessSideEffect ==
    /\ last.op = "UptimeMonitorResource.Update"
    /\ HasError(last.diag)
    /\ Len(last.sent) = 2
    /\ tf.monitor = last.in.state
    /\ last.in.plan # last.in.state
C30_WitnessDelete ==
    /\ last.op \in DeleteOps
    /\ HasError(last.diag)
    /\ last.sent # <<>>
    /\ tf[KindOf(last.op)] # <<>>
C30_WitnessConversion ==
    /\ last.op \in UpdateOps
    /\ HasError(last.diag)
    /\ last.diag = PlanConversionDiags

====
